---- MODULE Spec2Model ----
(***************************************************************************)
(* A state-machine model of the gallery server (server/routes.ts,          *)
(* server/storage.ts) and of the admin page's ordering logic.              *)
(*                                                                         *)
(* The relational tables, the object-store bucket and the site settings    *)
(* are the state; every request handler is a process that advances from    *)
(* one awaited call to the next, so that two handlers interleave exactly   *)
(* where the code awaits.  Calls to the relational store and to the object *)
(* store may fail; the outcome is chosen nondeterministically.             *)
(***************************************************************************)
EXTENDS Integers, Sequences, FiniteSets, TLC

VARIABLES
    artworks,      \* table artworks: id -> row
    exhibitions,   \* table exhibitions: id -> row
    siteSettings,  \* table site_settings, key "slots": <<>> (no row) or <<value>>
    users,         \* table users: the usernames of its rows, in insertion order
    bucket,        \* object store: the blob paths present in the bucket
    serial,        \* the serial id counters of the tables
    contactMessages, \* table contact_messages: its rows, in insertion order
    env,           \* process.env: ADMIN_USERNAME, ADMIN_PASSWORD, SMTP_HOST (with
                   \* SMTP_USER and SMTP_PASS)
    boot,          \* registerRoutes/ensureAdminUser of each server instance
    reqs,          \* the request handlers in flight, one per connection
    client,        \* the admin page (React state of Admin())
    ghost          \* history kept for the properties only (never read by the program)

vars == <<artworks, exhibitions, siteSettings, users, bucket, serial, contactMessages,
          env, boot, reqs, client, ghost>>

store == <<artworks, exhibitions, siteSettings, users, bucket, serial, contactMessages>>

-----------------------------------------------------------------------------
(* Bounds of the model *)

\* records initially present in each of the tables artworks and exhibitions
NumRecords == 2

\* requests a connection serves in one behaviour of Spec
MaxRequests == 3

-----------------------------------------------------------------------------
(* Program constants *)

\* upload.array('images', 3)
MaxBatch == 3

\* slots.length !== 3
SlotsLen == 3

\* the username requireAdmin compares with
GateUsername == "ivan"

-----------------------------------------------------------------------------
(* URLs.  A URL is a sequence of tokens: "http" stands for a scheme prefix  *)
(* starting with the characters http, "MARKER" for the substring            *)
(* /storage/v1/object/public/<bucket>/, any other token for other text.     *)

Marker == "MARKER"

\* existing.imageUrl.startsWith("http")
startsWithHttp(url) == Len(url) > 0 /\ url[1] = "http"

\* publicUrl.indexOf(marker): the first position of the marker, 0 for -1
indexOfMarker(url) ==
    IF \E i \in 1..Len(url) : url[i] = Marker
    THEN CHOOSE i \in 1..Len(url) :
            url[i] = Marker /\ \A j \in 1..(i - 1) : url[j] # Marker
    ELSE 0

\* extractSupabasePathFromPublicUrl: <<>> for null, else <<path>>
extractSupabasePathFromPublicUrl(url) ==
    LET idx == indexOfMarker(url)
    IN  IF idx = 0 THEN <<>> ELSE << SubSeq(url, idx + 1, Len(url)) >>

\* deleteSupabasePublicFile returns early when !pathInBucket (null or "")
pathToRemove(url) ==
    LET p == extractSupabasePathFromPublicUrl(url)
    IN  IF p = <<>> \/ p[1] = <<>> THEN <<>> ELSE p

\* getPublicUrl(storagePath)
getPublicUrl(name) == <<"http", Marker, name>>

\* the names uploadBufferToSupabase may draw: `${Date.now()}-${random}${ext}`
BlobNames == {"a", "b", "c", "d", "e", "f", "g"}

UrlManagedA == getPublicUrl("a")
UrlManagedB == getPublicUrl("b")
UrlManagedC == getPublicUrl("c")
UrlExternal == <<"http", "x">>
UrlLocal    == <<"x">>
UrlNoPath   == <<"http", Marker>>
UrlEmpty    == <<>>

\* a URL of a blob of the managed store
IsManaged(url) == startsWithHttp(url) /\ pathToRemove(url) # <<>>

-----------------------------------------------------------------------------
(* Sessions *)

NoSession == [present |-> FALSE, isAdmin |-> FALSE, username |-> ""]

\* username "" stands for a session without adminUser
Session(a, u) == [present |-> TRUE, isAdmin |-> a, username |-> u]

AdminSession == Session(TRUE, "ivan")

Sessions ==
    {NoSession} \cup {Session(a, u) : a \in BOOLEAN, u \in {"", "ivan", "bob"}}

\* a faulty variant: the username is not compared
requireAdminFlagOnly(session) == session.present /\ session.isAdmin

\* requireAdmin: session?.isAdmin && session?.adminUser?.username === 'ivan'
requireAdmin(session) ==
    session.present /\ session.isAdmin /\ session.username = GateUsername

-----------------------------------------------------------------------------
(* The route table of registerRoutes, in registration order *)

Route(m, p, g, h) == [method |-> m, path |-> p, gated |-> g, h |-> h]

Routes == <<
    Route("GET",    <<"api", "artworks">>,                              FALSE, "getArtworks"),
    Route("GET",    <<"api", "artworks", "slots">>,                     TRUE,  "getSlots"),
    Route("GET",    <<"api", "storage", "diagnostics">>,                TRUE,  "diagnostics"),
    Route("PUT",    <<"api", "artworks", "slots">>,                     TRUE,  "putSlots"),
    Route("GET",    <<"api", "artworks", ":id">>,                       FALSE, "getArtwork"),
    Route("POST",   <<"api", "artworks">>,                              FALSE, "createArtwork"),
    Route("POST",   <<"api", "artworks", ":id", "additional-images">>,  TRUE,  "additionalImages"),
    Route("GET",    <<"api", "exhibitions">>,                           FALSE, "getExhibitions"),
    Route("PUT",    <<"api", "exhibitions", "order">>,                  TRUE,  "reorderExhibitions"),
    Route("GET",    <<"api", "exhibitions", ":id">>,                    TRUE,  "getExhibition"),
    Route("POST",   <<"api", "exhibitions">>,                           TRUE,  "createExhibition"),
    Route("POST",   <<"api", "contact">>,                               FALSE, "contact"),
    Route("DELETE", <<"api", "artworks", ":id">>,                       TRUE,  "deleteArtwork"),
    Route("POST",   <<"api", "upload">>,                                TRUE,  "upload"),
    Route("PUT",    <<"api", "exhibitions", ":id", "gallery">>,         TRUE,  "gallery"),
    Route("DELETE", <<"api", "exhibitions", ":id">>,                    TRUE,  "deleteExhibition")
>>

\* Express path matching: a :id segment matches any one segment
Matches(pattern, path) ==
    /\ Len(pattern) = Len(path)
    /\ \A i \in 1..Len(pattern) : pattern[i] = ":id" \/ pattern[i] = path[i]

\* the first registered route that matches, 0 when none does
Dispatch(method, path) ==
    LET hits == {i \in 1..Len(Routes) :
                    Routes[i].method = method /\ Matches(Routes[i].path, path)}
    IN  IF hits = {} THEN 0 ELSE CHOOSE i \in hits : \A j \in hits : i <= j

IdStrings == <<"1", "2", "3", "4", "5">>

\* parseInt(req.params.id); 0 stands for NaN, which matches no row
parseInt(s) ==
    IF \E i \in 1..Len(IdStrings) : IdStrings[i] = s
    THEN CHOOSE i \in 1..Len(IdStrings) : IdStrings[i] = s
    ELSE 0

ParamId(pattern, path) ==
    IF \E i \in 1..Len(pattern) : pattern[i] = ":id"
    THEN parseInt(path[CHOOSE i \in 1..Len(pattern) : pattern[i] = ":id"])
    ELSE 0

-----------------------------------------------------------------------------
(* The Persistence Gateway (DatabaseStorage), as functions of a table *)

\* mapArtwork / mapExhibition: the row with its id
mapRow(t, id) == [id |-> id] @@ t[id]

\* all enumerations of the set S without repetition
Enumerations(S) ==
    {s \in [1..Cardinality(S) -> S] :
        \A i, j \in 1..Cardinality(S) : i # j => s[i] # s[j]}

\* .orderBy(asc(order)): every enumeration ascending by order; rows with equal
\* order come in whatever sequence the store returns
orderByAsc(t, S) ==
    {s \in Enumerations(S) :
        \A i \in 1..(Len(s) - 1) : t[s[i]].order <= t[s[i + 1]].order}

\* a faulty variant: no ORDER BY
getExhibitionsUnordered(t) ==
    {[i \in 1..Len(s) |-> mapRow(t, s[i])] : s \in Enumerations(DOMAIN t)}

\* getExhibitions: the possible results of select().orderBy(asc(order))
getExhibitions(t) ==
    {[i \in 1..Len(s) |-> mapRow(t, s[i])] : s \in orderByAsc(t, DOMAIN t)}

\* a faulty variant: no WHERE clause
getArtworksUnfiltered(t) ==
    {[i \in 1..Len(s) |-> mapRow(t, s[i])] : s \in orderByAsc(t, DOMAIN t)}

\* getArtworks: where is_visible = true, ordered ascending by order
getArtworks(t) ==
    {[i \in 1..Len(s) |-> mapRow(t, s[i])] :
        s \in orderByAsc(t, {id \in DOMAIN t : t[id].isVisible = "true"})}

\* getArtwork / getExhibition: <<>> for undefined, else <<row>>
getRow(t, id) == IF id \in DOMAIN t THEN << mapRow(t, id) >> ELSE <<>>

\* db.delete(...).where(eq(id))
deleteRow(t, id) == [i \in DOMAIN t \ {id} |-> t[i]]

\* a faulty variant: the submitted value is added to the stored one
setOrderBump(t, id, order) ==
    IF id \in DOMAIN t THEN [t EXCEPT ![id].order = @ + order] ELSE t

\* a faulty variant: an upsert, which creates the row no id matches
setOrderUpsert(t, id, order) ==
    IF id \in DOMAIN t THEN [t EXCEPT ![id].order = order]
    ELSE t @@ (id :> [order |-> order])

\* db.update(...).set({ order }).where(eq(id)): no row, no change
setOrder(t, id, order) ==
    IF id \in DOMAIN t THEN [t EXCEPT ![id].order = order] ELSE t

\* createInsertSchema(artworks).omit({id}): the notNull columns without default
ArtworkRequired == {"title", "image_url", "dimensions", "technique", "year", "description"}

\* createInsertSchema(exhibitions).omit({id})
ExhibitionRequired == {"title", "location", "year", "image_url", "description"}

insertArtworkSchemaParse(body) == ArtworkRequired \subseteq body.fields

insertExhibitionSchemaParse(body) == ExhibitionRequired \subseteq body.fields

\* createInsertSchema(contactMessages).omit({id})
ContactRequired == {"name", "email", "message"}

insertContactMessageSchemaParse(body) == ContactRequired \subseteq body.fields

\* createArtwork: the row inserted for validated data d
newArtworkRow(d) ==
    [imageUrl         |-> d.imageUrl,
     category         |-> IF d.category = "" THEN "Autres" ELSE d.category,
     isVisible        |-> IF d.isVisible = "undef" THEN "true" ELSE d.isVisible,
     showInSlider     |-> IF d.showInSlider = "undef" THEN "true" ELSE d.showInSlider,
     order            |-> IF d.order = <<>> THEN 0 ELSE d.order[1],
     additionalImages |-> <<>>]

\* createExhibition: the row inserted for validated data d
newExhibitionRow(d) ==
    [imageUrl      |-> d.imageUrl,
     galleryImages |-> <<>>,
     order         |-> IF d.order = <<>> THEN 0 ELSE d.order[1]]

\* a faulty variant: no default when the setting has no row
getSlotsNoDefault(s) == IF s.slots = <<>> THEN <<>> ELSE s.slots[1]

\* getSlots: getSetting("slots", [null, null, null]); 0 stands for null
getSlots(s) == IF s.slots = <<>> THEN <<0, 0, 0>> ELSE s.slots[1]

-----------------------------------------------------------------------------
(* Requests.  A request is [method, path, session, body]; its handler is a    *)
(* record whose pc names the call the handler is awaiting.                    *)

\* the connections on which requests arrive
Conns == {"A", "B"}

\* req.body / req.files: isArray and items for an array body or the uploaded
\* files, fields and data for the properties of an object body
Body(isArray, items, fields, data) ==
    [isArray |-> isArray, items |-> items, fields |-> fields, data |-> data]

NoBody == Body(FALSE, <<>>, {}, <<>>)

ArrayBody(items) == Body(TRUE, items, {}, <<>>)

Request(m, p, s, b) == [method |-> m, path |-> p, session |-> s, body |-> b]

Idle ==
    [route |-> 0, h |-> "none", session |-> NoSession, invoked |-> FALSE,
     pc |-> "idle", status |-> 0, id |-> 0, body |-> NoBody, pos |-> 1,
     existing |-> <<>>, plan |-> <<>>, acc |-> <<>>, trace |-> <<>>, resp |-> <<>>]

\* res.status(st).json(resp): the handler ends
Done(rec, st, resp) == [rec EXCEPT !.pc = "done", !.status = st, !.resp = resp]

\* the handler goes on to await the call pc
Await(rec, pc) == [rec EXCEPT !.pc = pc]

\* a call to the relational store or the object store, as the request issued it
Log(rec, ev, arg, out) ==
    [rec EXCEPT !.trace = Append(@, [ev |-> ev, arg |-> arg, out |-> out])]

\* supabase.storage.from(bucket).remove([path]): done, an error returned, a throw
RemoveOutcomes == {"ok", "error", "throw"}

\* multer's fileFilter: file.mimetype.startsWith("image/")
fileFilter(file) == file.image

\* the synchronous start of handler k on request q, up to its first await
Begin(k, q) ==
    LET h    == Routes[k].h
        base == [Idle EXCEPT !.route = k, !.h = h, !.session = q.session,
                             !.invoked = TRUE, !.pc = h,
                             !.id = ParamId(Routes[k].path, q.path),
                             !.body = q.body]
        \* multer rejects the request before the handler: next(err), status 500
        refused == Done([base EXCEPT !.invoked = FALSE], 500, <<>>)
        files == q.body.items
    IN  CASE h = "diagnostics" -> Done(base, 200, <<>>)
          [] h = "putSlots" ->
                IF ~q.body.isArray \/ Len(q.body.items) # SlotsLen
                THEN Done(base, 400, <<>>) ELSE base
          [] h = "createArtwork" ->
                IF insertArtworkSchemaParse(q.body) THEN base ELSE Done(base, 400, <<>>)
          [] h = "createExhibition" ->
                IF insertExhibitionSchemaParse(q.body) THEN base ELSE Done(base, 400, <<>>)
          [] h = "contact" ->
                IF insertContactMessageSchemaParse(q.body) THEN base
                ELSE Done(base, 400, <<>>)
          [] h = "additionalImages" ->
                IF Len(files) > MaxBatch \/ \E i \in 1..Len(files) : ~fileFilter(files[i])
                THEN refused
                ELSE IF Len(files) = 0 THEN Done(base, 400, <<>>)
                ELSE Await(base, "ai_get")
          [] h = "upload" ->
                IF Len(files) > 1 \/ \E i \in 1..Len(files) : ~fileFilter(files[i])
                THEN refused
                ELSE IF Len(files) = 0 THEN Done(base, 400, <<>>)
                ELSE base
          [] h = "reorderExhibitions" ->
                IF ~q.body.isArray THEN Done(base, 400, <<>>)
                ELSE IF q.body.items = <<>> THEN Done(base, 200, <<>>)
                ELSE base
          [] h = "gallery" ->
                IF ~q.body.isArray THEN Done(base, 400, <<>>) ELSE Await(base, "gu_get")
          [] h = "deleteArtwork" -> Await(base, "da_get")
          [] h = "deleteExhibition" -> Await(base, "de_get")
          [] OTHER -> base

\* no route matches: Express answers 404 and nothing runs
Unrouted(q) == Done([Idle EXCEPT !.session = q.session], 404, <<>>)

\* requireAdmin answered 401: next() is not called
Rejected(k, q) ==
    Done([Idle EXCEPT !.route = k, !.h = Routes[k].h, !.session = q.session,
                      !.id = ParamId(Routes[k].path, q.path), !.body = q.body],
         401, <<>>)

\* the routes are registered once ensureAdminUser has returned
Listening == \E i \in DOMAIN boot : boot[i].pc = "done"

\* request q arrives on connection r: routing, the gate, the start of the handler
Receive(r, q) ==
    /\ reqs[r].pc \in {"idle", "done", "hung"}
    /\ Listening
    /\ LET k == Dispatch(q.method, q.path)
       IN  reqs' = [reqs EXCEPT ![r] =
                IF k = 0 THEN Unrouted(q)
                ELSE IF Routes[k].gated /\ ~requireAdmin(q.session) THEN Rejected(k, q)
                ELSE Begin(k, q)]
    /\ UNCHANGED <<store, env, boot>>

Arrive(r, q) == Receive(r, q) /\ UNCHANGED <<client, ghost>>

\* what a handler step leaves alone besides the store
Frame == UNCHANGED <<env, boot, client, ghost>>

Set(r, rec) == reqs' = [reqs EXCEPT ![r] = rec]

-----------------------------------------------------------------------------
(* Read handlers *)

\* app.get("/api/artworks")
GetArtworks(r) ==
    /\ reqs[r].pc = "getArtworks"
    /\ \/ \E res \in getArtworks(artworks) : Set(r, Done(reqs[r], 200, res))
       \/ Set(r, Done(reqs[r], 500, <<>>))
    /\ UNCHANGED store /\ Frame

\* app.get("/api/exhibitions")
GetExhibitions(r) ==
    /\ reqs[r].pc = "getExhibitions"
    /\ \/ \E res \in getExhibitions(exhibitions) : Set(r, Done(reqs[r], 200, res))
       \/ Set(r, Done(reqs[r], 500, <<>>))
    /\ UNCHANGED store /\ Frame

\* app.get("/api/artworks/:id")
GetArtwork(r) ==
    /\ reqs[r].pc = "getArtwork"
    /\ \/ LET row == getRow(artworks, reqs[r].id)
          IN  Set(r, Done(reqs[r], IF row = <<>> THEN 404 ELSE 200, row))
       \/ Set(r, Done(reqs[r], 500, <<>>))
    /\ UNCHANGED store /\ Frame

\* app.get("/api/exhibitions/:id")
GetExhibition(r) ==
    /\ reqs[r].pc = "getExhibition"
    /\ \/ LET row == getRow(exhibitions, reqs[r].id)
          IN  Set(r, Done(reqs[r], IF row = <<>> THEN 404 ELSE 200, row))
       \/ Set(r, Done(reqs[r], 500, <<>>))
    /\ UNCHANGED store /\ Frame

\* app.get("/api/artworks/slots"): no try/catch; a rejected getSlots leaves the
\* request without a response, or reaches the error middleware where the router
\* forwards the rejection of an async handler
GetSlots(r) ==
    /\ reqs[r].pc = "getSlots"
    /\ \/ Set(r, Done(reqs[r], 200, getSlots(siteSettings)))
       \/ Set(r, Await(reqs[r], "hung"))
       \/ Set(r, Done(reqs[r], 500, <<>>))
    /\ UNCHANGED store /\ Frame

-----------------------------------------------------------------------------
(* Slots, create *)

\* app.put("/api/artworks/slots"): setSetting is an upsert on the key
PutSlots(r) ==
    /\ reqs[r].pc = "putSlots"
    /\ \/ /\ siteSettings' = [siteSettings EXCEPT !.slots = << reqs[r].body.items >>]
          /\ Set(r, Done(Log(reqs[r], "setSlots", <<>>, "ok"), 200, <<>>))
       \/ /\ Set(r, Await(Log(reqs[r], "setSlots", <<>>, "error"), "hung"))
          /\ UNCHANGED siteSettings
       \/ /\ Set(r, Done(Log(reqs[r], "setSlots", <<>>, "error"), 500, <<>>))
          /\ UNCHANGED siteSettings
    /\ UNCHANGED <<artworks, exhibitions, users, contactMessages, bucket, serial>>
    /\ Frame

\* app.post("/api/artworks"): a rejected insert is answered 400 like a failed parse
CreateArtwork(r) ==
    /\ reqs[r].pc = "createArtwork"
    /\ \/ LET id == serial.artworks + 1
          IN  /\ artworks' = artworks @@ (id :> newArtworkRow(reqs[r].body.data))
              /\ serial' = [serial EXCEPT !.artworks = id]
              /\ Set(r, Done(Log(reqs[r], "createArtwork", <<id>>, "ok"), 201,
                             getRow(artworks', id)))
       \/ /\ Set(r, Done(Log(reqs[r], "createArtwork", <<>>, "error"), 400, <<>>))
          /\ UNCHANGED <<artworks, serial>>
    /\ UNCHANGED <<exhibitions, siteSettings, users, contactMessages, bucket>> /\ Frame

\* app.post("/api/exhibitions")
CreateExhibition(r) ==
    /\ reqs[r].pc = "createExhibition"
    /\ \/ LET id == serial.exhibitions + 1
          IN  /\ exhibitions' = exhibitions @@ (id :> newExhibitionRow(reqs[r].body.data))
              /\ serial' = [serial EXCEPT !.exhibitions = id]
              /\ Set(r, Done(Log(reqs[r], "createExhibition", <<id>>, "ok"), 201,
                             getRow(exhibitions', id)))
       \/ /\ Set(r, Done(Log(reqs[r], "createExhibition", <<>>, "error"), 400, <<>>))
          /\ UNCHANGED <<exhibitions, serial>>
    /\ UNCHANGED <<artworks, siteSettings, users, contactMessages, bucket>> /\ Frame

-----------------------------------------------------------------------------
(* Contact *)

\* SMTP_HOST, SMTP_USER and SMTP_PASS are all set
hasSmtp == env.SMTP_HOST # ""

\* transporter.sendMail: sent, or a rejection
MailOutcomes == {"ok", "throw"}

\* app.post("/api/contact"): await storage.createContactMessage(validatedData); a
\* rejected insert is answered 400 like a failed parse
Contact(r) ==
    /\ reqs[r].pc = "contact"
    /\ \/ LET id   == serial.contact + 1
              row  == [id |-> id, name |-> reqs[r].body.data.name]
              next == [Log(reqs[r], "createContactMessage", <<id>>, "ok")
                          EXCEPT !.existing = <<row>>]
          IN  /\ contactMessages' = Append(contactMessages, row)
              /\ serial' = [serial EXCEPT !.contact = id]
              /\ Set(r, IF hasSmtp THEN Await(next, "ct_mail") ELSE Done(next, 201, <<id>>))
       \/ /\ Set(r, Done(Log(reqs[r], "createContactMessage", <<>>, "error"), 400, <<>>))
          /\ UNCHANGED <<contactMessages, serial>>
    /\ UNCHANGED <<artworks, exhibitions, siteSettings, users, bucket>>
    /\ Frame

\* a faulty variant: a rejected sendMail reaches the outer catch
ContactMailFatal(r) ==
    /\ reqs[r].pc = "ct_mail"
    /\ \E out \in MailOutcomes :
        Set(r, Done(Log(reqs[r], "sendMail", <<>>, out),
                    IF out = "ok" THEN 201 ELSE 400,
                    IF out = "ok" THEN <<reqs[r].existing[1].id>> ELSE <<>>))
    /\ UNCHANGED store /\ Frame

\* await transporter.sendMail(...) in its own try/catch; res.status(201)
ContactMail(r) ==
    /\ reqs[r].pc = "ct_mail"
    /\ \E out \in MailOutcomes :
        Set(r, Done(Log(reqs[r], "sendMail", <<>>, out), 201, <<reqs[r].existing[1].id>>))
    /\ UNCHANGED store /\ Frame

-----------------------------------------------------------------------------
(* Reordering *)

\* a faulty variant: a failed update is skipped and the loop goes on
ReorderExhibitionsSwallow(r) ==
    /\ reqs[r].pc = "reorderExhibitions"
    /\ LET pair == reqs[r].body.items[reqs[r].pos]
           last == reqs[r].pos = Len(reqs[r].body.items)
           next == [Log(reqs[r], "update", <<pair.id>>, "ok") EXCEPT !.pos = @ + 1]
           skip == [Log(reqs[r], "update", <<pair.id>>, "error") EXCEPT !.pos = @ + 1]
       IN  \/ /\ exhibitions' = setOrder(exhibitions, pair.id, pair.order)
              /\ Set(r, IF last THEN Done(next, 200, <<>>) ELSE next)
           \/ /\ UNCHANGED exhibitions
              /\ Set(r, IF last THEN Done(skip, 200, <<>>) ELSE skip)
    /\ UNCHANGED <<artworks, siteSettings, users, contactMessages, bucket, serial>>
    /\ Frame

\* app.put("/api/exhibitions/order") in storage.reorderExhibitions: one awaited
\* update per pair; a rejected update ends the loop and is answered 500
ReorderExhibitions(r) ==
    /\ reqs[r].pc = "reorderExhibitions"
    /\ LET pair == reqs[r].body.items[reqs[r].pos]
           last == reqs[r].pos = Len(reqs[r].body.items)
           next == [Log(reqs[r], "update", <<pair.id>>, "ok") EXCEPT !.pos = @ + 1]
       IN  \/ /\ exhibitions' = setOrder(exhibitions, pair.id, pair.order)
              /\ Set(r, IF last THEN Done(next, 200, <<>>) ELSE next)
           \/ /\ UNCHANGED exhibitions
              /\ Set(r, Done(Log(reqs[r], "update", <<pair.id>>, "error"), 500, <<>>))
    /\ UNCHANGED <<artworks, siteSettings, users, contactMessages, bucket, serial>>
    /\ Frame

-----------------------------------------------------------------------------
(* Delete artwork *)

\* app.delete("/api/artworks/:id"): the lookup, and whether a blob is to be removed
DeleteArtworkGet(r) ==
    /\ reqs[r].pc = "da_get"
    /\ \/ LET row == getRow(artworks, reqs[r].id)
              url == row[1].imageUrl
          IN  IF row = <<>> THEN Set(r, Done(reqs[r], 404, <<>>))
              ELSE IF url # <<>> /\ startsWithHttp(url) /\ pathToRemove(url) # <<>>
                   THEN Set(r, [reqs[r] EXCEPT !.pc = "da_blob", !.existing = row,
                                               !.plan = pathToRemove(url)])
                   ELSE Set(r, [reqs[r] EXCEPT !.pc = "da_delete", !.existing = row])
       \/ Set(r, Done(reqs[r], 500, <<>>))
    /\ UNCHANGED store /\ Frame

\* a faulty variant: a failed blob removal aborts the request
DeleteArtworkBlobFatal(r) ==
    /\ reqs[r].pc = "da_blob"
    /\ \E out \in RemoveOutcomes :
        LET path == reqs[r].plan[1]
        IN  /\ bucket' = IF out = "ok" THEN bucket \ {path} ELSE bucket
            /\ Set(r, IF out = "ok"
                      THEN Await(Log(reqs[r], "remove", path, out), "da_delete")
                      ELSE Done(Log(reqs[r], "remove", path, out), 500, <<>>))
    /\ UNCHANGED <<artworks, exhibitions, siteSettings, users, contactMessages, serial>>
    /\ Frame

\* await deleteSupabasePublicFile(existing.imageUrl), in its own try/catch
DeleteArtworkBlob(r) ==
    /\ reqs[r].pc = "da_blob"
    /\ \E out \in RemoveOutcomes :
        LET path == reqs[r].plan[1]
        IN  /\ bucket' = IF out = "ok" THEN bucket \ {path} ELSE bucket
            /\ Set(r, Await(Log(reqs[r], "remove", path, out), "da_delete"))
    /\ UNCHANGED <<artworks, exhibitions, siteSettings, users, contactMessages, serial>>
    /\ Frame

\* await storage.deleteArtwork(id); res.json({ success: true })
DeleteArtworkRecord(r) ==
    /\ reqs[r].pc = "da_delete"
    /\ \/ /\ artworks' = deleteRow(artworks, reqs[r].id)
          /\ Set(r, Done(Log(reqs[r], "deleteArtwork", <<reqs[r].id>>, "ok"), 200, <<>>))
       \/ /\ UNCHANGED artworks
          /\ Set(r, Done(Log(reqs[r], "deleteArtwork", <<reqs[r].id>>, "error"), 500, <<>>))
    /\ UNCHANGED <<exhibitions, siteSettings, users, contactMessages, bucket, serial>>
    /\ Frame

-----------------------------------------------------------------------------
(* Uploads *)

\* the blob names not yet taken: upload(..., { upsert: false }) fails on a taken one
FreeNames == {n \in BlobNames : <<n>> \notin bucket}

\* app.post("/api/upload"): re-encode, uploadBufferToSupabase, the public URL
Upload(r) ==
    /\ reqs[r].pc = "upload"
    /\ \/ \E n \in FreeNames :
            /\ bucket' = bucket \cup {<<n>>}
            /\ Set(r, Done(Log(reqs[r], "upload", <<n>>, "ok"), 200, << getPublicUrl(n) >>))
       \/ /\ UNCHANGED bucket
          /\ Set(r, Done(Log(reqs[r], "upload", <<>>, "error"), 500, <<>>))
    /\ UNCHANGED <<artworks, exhibitions, siteSettings, users, contactMessages, serial>>
    /\ Frame

\* app.post("/api/artworks/:id/additional-images"): await storage.getArtwork(id)
AdditionalImagesGet(r) ==
    /\ reqs[r].pc = "ai_get"
    /\ \/ LET row == getRow(artworks, reqs[r].id)
          IN  IF row = <<>> THEN Set(r, Done(reqs[r], 404, <<>>))
              ELSE Set(r, [reqs[r] EXCEPT !.pc = "ai_upload", !.existing = row,
                                          !.pos = 1, !.acc = <<>>])
       \/ Set(r, Done(reqs[r], 500, <<>>))
    /\ UNCHANGED store /\ Frame

\* a faulty variant: a failed upload is skipped and the loop goes on
AdditionalImagesUploadSkip(r) ==
    /\ reqs[r].pc = "ai_upload"
    /\ LET last == reqs[r].pos = Len(reqs[r].body.items)
       IN  \/ \E n \in FreeNames :
                LET next == [Log(reqs[r], "upload", <<n>>, "ok") EXCEPT
                                !.acc = Append(@, getPublicUrl(n)), !.pos = @ + 1]
                IN  /\ bucket' = bucket \cup {<<n>>}
                    /\ Set(r, IF last THEN Await(next, "ai_update") ELSE next)
           \/ LET next == [Log(reqs[r], "upload", <<>>, "error") EXCEPT !.pos = @ + 1]
              IN  /\ UNCHANGED bucket
                  /\ Set(r, IF last THEN Await(next, "ai_update") ELSE next)
    /\ UNCHANGED <<artworks, exhibitions, siteSettings, users, contactMessages, serial>>
    /\ Frame

\* for (const file of files): sharp, uploadBufferToSupabase, newImageUrls.push
AdditionalImagesUpload(r) ==
    /\ reqs[r].pc = "ai_upload"
    /\ \/ \E n \in FreeNames :
            LET next == [Log(reqs[r], "upload", <<n>>, "ok") EXCEPT
                            !.acc = Append(@, getPublicUrl(n)), !.pos = @ + 1]
            IN  /\ bucket' = bucket \cup {<<n>>}
                /\ Set(r, IF reqs[r].pos = Len(reqs[r].body.items)
                          THEN Await(next, "ai_update") ELSE next)
       \/ /\ UNCHANGED bucket
          /\ Set(r, Done(Log(reqs[r], "upload", <<>>, "error"), 500, <<>>))
    /\ UNCHANGED <<artworks, exhibitions, siteSettings, users, contactMessages, serial>>
    /\ Frame

\* a faulty variant: the new URLs are put in front of the existing ones
AdditionalImagesUpdatePrepend(r) ==
    /\ reqs[r].pc = "ai_update"
    /\ LET id      == reqs[r].id
           updated == reqs[r].acc \o reqs[r].existing[1].additionalImages
       IN  \/ /\ artworks' = IF id \in DOMAIN artworks
                             THEN [artworks EXCEPT ![id].additionalImages = updated]
                             ELSE artworks
              /\ Set(r, Done(Log(reqs[r], "updateArtwork", <<id>>, "ok"), 200, updated))
           \/ /\ UNCHANGED artworks
              /\ Set(r, Done(Log(reqs[r], "updateArtwork", <<id>>, "error"), 500, <<>>))
    /\ UNCHANGED <<exhibitions, siteSettings, users, contactMessages, bucket, serial>>
    /\ Frame

\* supabase.from('artworks').update({ additional_images }).eq('id', id)
AdditionalImagesUpdate(r) ==
    /\ reqs[r].pc = "ai_update"
    /\ LET id      == reqs[r].id
           updated == reqs[r].existing[1].additionalImages \o reqs[r].acc
       IN  \/ /\ artworks' = IF id \in DOMAIN artworks
                             THEN [artworks EXCEPT ![id].additionalImages = updated]
                             ELSE artworks
              /\ Set(r, Done(Log(reqs[r], "updateArtwork", <<id>>, "ok"), 200, updated))
           \/ /\ UNCHANGED artworks
              /\ Set(r, Done(Log(reqs[r], "updateArtwork", <<id>>, "error"), 500, <<>>))
    /\ UNCHANGED <<exhibitions, siteSettings, users, contactMessages, bucket, serial>>
    /\ Frame

-----------------------------------------------------------------------------
(* Exhibition gallery, delete exhibition *)

\* new Set(list): the first occurrence of each element, in insertion order
RECURSIVE Dedup(_)
Dedup(s) ==
    IF s = <<>> THEN <<>>
    ELSE LET init == Dedup(SubSeq(s, 1, Len(s) - 1))
             last == s[Len(s)]
         IN  IF \E i \in 1..Len(init) : init[i] = last THEN init ELSE Append(init, last)

\* list.map(g => g.url).filter(Boolean)
UrlsOf(gallery) ==
    SelectSeq([i \in 1..Len(gallery) |-> gallery[i].url], LAMBDA u : u # <<>>)

\* a faulty variant: every previous URL is taken as removed
removedUrlsAll(previous, next) == Dedup(UrlsOf(previous))

\* the URLs of previous that next does not hold
removedUrls(previous, next) ==
    SelectSeq(Dedup(UrlsOf(previous)),
              LAMBDA u : \A i \in 1..Len(UrlsOf(next)) : UrlsOf(next)[i] # u)

\* the paths for which deleteSupabasePublicFile issues a removal, for the URLs
\* that start with http
pathsToRemove(urls) ==
    LET managed == SelectSeq(urls, LAMBDA u : startsWithHttp(u) /\ pathToRemove(u) # <<>>)
    IN  [i \in 1..Len(managed) |-> pathToRemove(managed[i])[1]]

\* app.put("/api/exhibitions/:id/gallery"): await storage.getExhibition(id)
GalleryGet(r) ==
    /\ reqs[r].pc = "gu_get"
    /\ \/ LET row  == getRow(exhibitions, reqs[r].id)
              plan == pathsToRemove(removedUrls(row[1].galleryImages, reqs[r].body.items))
          IN  IF row = <<>> THEN Set(r, Done(reqs[r], 404, <<>>))
              ELSE Set(r, [reqs[r] EXCEPT !.existing = row, !.plan = plan, !.pos = 1,
                               !.pc = IF plan = <<>> THEN "gu_update" ELSE "gu_blob"])
       \/ Set(r, Done(reqs[r], 500, <<>>))
    /\ UNCHANGED store /\ Frame

\* for (const url of removed): await deleteSupabasePublicFile(url), each in a try
GalleryBlob(r) ==
    /\ reqs[r].pc = "gu_blob"
    /\ \E out \in RemoveOutcomes :
        LET path == reqs[r].plan[reqs[r].pos]
            next == [Log(reqs[r], "remove", path, out) EXCEPT !.pos = @ + 1]
        IN  /\ bucket' = IF out = "ok" THEN bucket \ {path} ELSE bucket
            /\ Set(r, IF reqs[r].pos = Len(reqs[r].plan)
                      THEN Await(next, "gu_update") ELSE next)
    /\ UNCHANGED <<artworks, exhibitions, siteSettings, users, contactMessages, serial>>
    /\ Frame

\* await storage.updateExhibitionGallery(id, galleryImages); res.json(updated)
GalleryUpdate(r) ==
    /\ reqs[r].pc = "gu_update"
    /\ LET id == reqs[r].id
       IN  \/ /\ exhibitions' = IF id \in DOMAIN exhibitions
                                THEN [exhibitions EXCEPT
                                        ![id].galleryImages = reqs[r].body.items]
                                ELSE exhibitions
              /\ Set(r, Done(Log(reqs[r], "updateExhibitionGallery", <<id>>, "ok"), 200,
                             getRow(exhibitions', id)))
           \/ /\ UNCHANGED exhibitions
              /\ Set(r, Done(Log(reqs[r], "updateExhibitionGallery", <<id>>, "error"),
                             500, <<>>))
    /\ UNCHANGED <<artworks, siteSettings, users, contactMessages, bucket, serial>>
    /\ Frame

\* app.delete("/api/exhibitions/:id"): await storage.getExhibition(id); a missing
\* record goes straight to deleteExhibition
DeleteExhibitionGet(r) ==
    /\ reqs[r].pc = "de_get"
    /\ \/ LET row     == getRow(exhibitions, reqs[r].id)
              url     == row[1].imageUrl
              gallery == pathsToRemove([i \in 1..Len(row[1].galleryImages) |->
                                            row[1].galleryImages[i].url])
              primary == IF url # <<>> /\ startsWithHttp(url) THEN pathToRemove(url) ELSE <<>>
          IN  IF row = <<>> THEN Set(r, Await(reqs[r], "de_delete"))
              ELSE Set(r, [reqs[r] EXCEPT !.existing = row, !.plan = gallery, !.pos = 1,
                               !.acc = primary,
                               !.pc = IF primary # <<>> THEN "de_primary"
                                      ELSE IF gallery # <<>> THEN "de_gallery"
                                      ELSE "de_delete"])
       \/ Set(r, Done(reqs[r], 500, <<>>))
    /\ UNCHANGED store /\ Frame

\* await deleteSupabasePublicFile(existing.imageUrl): a throw leaves the outer try,
\* past the loop over the gallery
DeleteExhibitionPrimary(r) ==
    /\ reqs[r].pc = "de_primary"
    /\ \E out \in RemoveOutcomes :
        LET path == reqs[r].acc[1]
        IN  /\ bucket' = IF out = "ok" THEN bucket \ {path} ELSE bucket
            /\ Set(r, Await(Log(reqs[r], "remove", path, out),
                            IF out = "throw" \/ reqs[r].plan = <<>>
                            THEN "de_delete" ELSE "de_gallery"))
    /\ UNCHANGED <<artworks, exhibitions, siteSettings, users, contactMessages, serial>>
    /\ Frame

\* for (const gi of existing.galleryImages): try { await deleteSupabasePublicFile }
DeleteExhibitionGallery(r) ==
    /\ reqs[r].pc = "de_gallery"
    /\ \E out \in RemoveOutcomes :
        LET path == reqs[r].plan[reqs[r].pos]
            next == [Log(reqs[r], "remove", path, out) EXCEPT !.pos = @ + 1]
        IN  /\ bucket' = IF out = "ok" THEN bucket \ {path} ELSE bucket
            /\ Set(r, IF reqs[r].pos = Len(reqs[r].plan)
                      THEN Await(next, "de_delete") ELSE next)
    /\ UNCHANGED <<artworks, exhibitions, siteSettings, users, contactMessages, serial>>
    /\ Frame

\* await storage.deleteExhibition(id); res.json({ success: true })
DeleteExhibitionRecord(r) ==
    /\ reqs[r].pc = "de_delete"
    /\ \/ /\ exhibitions' = deleteRow(exhibitions, reqs[r].id)
          /\ Set(r, Done(Log(reqs[r], "deleteExhibition", <<reqs[r].id>>, "ok"), 200, <<>>))
       \/ /\ UNCHANGED exhibitions
          /\ Set(r, Done(Log(reqs[r], "deleteExhibition", <<reqs[r].id>>, "error"), 500, <<>>))
    /\ UNCHANGED <<artworks, siteSettings, users, contactMessages, bucket, serial>>
    /\ Frame

-----------------------------------------------------------------------------
(* Boot: ensureAdminUser, awaited by registerRoutes before any route exists *)

\* process.env.ADMIN_USERNAME || 'ivan'
seedUsername == IF env.ADMIN_USERNAME = "" THEN "ivan" ELSE env.ADMIN_USERNAME

\* supabase.from('users').select('id').limit(1), and the early returns; err
\* records that a call to the store failed
EnsureAdminUserSelect(i) ==
    /\ boot[i].pc = "select"
    /\ \/ boot' = [boot EXCEPT ![i].pc =
                     IF Len(users) > 0 \/ env.ADMIN_PASSWORD = "" THEN "done" ELSE "insert"]
       \/ boot' = [boot EXCEPT ![i].pc = "done", ![i].err = TRUE]
    /\ UNCHANGED <<store, env, reqs, client, ghost>>

\* a faulty variant: usernames are not unique
EnsureAdminUserInsertDup(i) ==
    /\ boot[i].pc = "insert"
    /\ \/ /\ users' = Append(users, seedUsername)
          /\ boot' = [boot EXCEPT ![i].pc = "done"]
       \/ /\ UNCHANGED users
          /\ boot' = [boot EXCEPT ![i].pc = "done", ![i].err = TRUE]
    /\ UNCHANGED <<artworks, exhibitions, siteSettings, contactMessages, bucket, serial,
                   env, reqs, client, ghost>>

\* supabase.from('users').insert({ username, password: hash }): username is
\* unique, so the insert of a username the table holds is rejected
EnsureAdminUserInsert(i) ==
    /\ boot[i].pc = "insert"
    /\ \/ /\ users' = IF \E k \in 1..Len(users) : users[k] = seedUsername
                      THEN users ELSE Append(users, seedUsername)
          /\ boot' = [boot EXCEPT ![i].pc = "done"]
       \/ /\ UNCHANGED users
          /\ boot' = [boot EXCEPT ![i].pc = "done", ![i].err = TRUE]
    /\ UNCHANGED <<artworks, exhibitions, siteSettings, contactMessages, bucket, serial,
                   env, reqs, client, ghost>>

-----------------------------------------------------------------------------
(* Initial states *)

Instances == {"i1", "i2"}

RecordIds == 1..NumRecords

\* the orders the initial rows and the submitted mappings draw from
Orders == 0..(NumRecords - 1)

InitArtworkRow(i) ==
    [imageUrl         |-> IF i = 1 THEN UrlManagedA ELSE UrlExternal,
     category         |-> "Autres",
     isVisible        |-> "true",
     showInSlider     |-> "true",
     order            |-> i - 1,
     additionalImages |-> <<>>]

InitExhibitionRow(i) ==
    [imageUrl      |-> IF i = 1 THEN UrlManagedB ELSE UrlExternal,
     galleryImages |-> IF i = 1 THEN << [url |-> UrlManagedC] >> ELSE <<>>,
     order         |-> i - 1]

InitClient ==
    [pc |-> "off", data |-> <<>>, artworksOrder |-> <<>>, submitted |-> <<>>]

InitGhost ==
    [served |-> 0, sub |-> <<>>, before |-> <<>>, attempt |-> 0, first |-> <<>>,
     ok |-> FALSE, art |-> <<>>, drop |-> <<>>]

\* a populated site: the rows, their blobs, no request in flight
InitStore ==
    /\ artworks = [i \in RecordIds |-> InitArtworkRow(i)]
    /\ exhibitions = [i \in RecordIds |-> InitExhibitionRow(i)]
    /\ siteSettings = [slots |-> <<>>]
    /\ bucket = {<<"a">>, <<"b">>, <<"c">>}
    /\ serial = [artworks |-> NumRecords, exhibitions |-> NumRecords, contact |-> 0]
    /\ contactMessages = <<>>
    /\ reqs = [r \in Conns |-> Idle]
    /\ client = InitClient
    /\ ghost = InitGhost

\* a server that has booted with the default configuration
Booted ==
    /\ users = <<"ivan">>
    /\ env = [ADMIN_USERNAME |-> "", ADMIN_PASSWORD |-> "pw", SMTP_HOST |-> ""]
    /\ boot = [i \in Instances |-> [pc |-> IF i = "i1" THEN "done" ELSE "off",
                               err |-> FALSE]]

-----------------------------------------------------------------------------
(* Spec: a booted server serves the requests of any client, one at a time.    *)

Image == [image |-> TRUE]

NotImage == [image |-> FALSE]

ArtworkData ==
    [imageUrl |-> UrlExternal, category |-> "", isVisible |-> "undef",
     showInSlider |-> "undef", order |-> <<>>]

ExhibitionData == [imageUrl |-> UrlExternal, order |-> <<>>]

\* the requests to the gated routes
GatedLines ==
    {<<"GET", <<"api", "artworks", "slots">>, NoBody>>,
     <<"GET", <<"api", "storage", "diagnostics">>, NoBody>>,
     <<"PUT", <<"api", "artworks", "slots">>, ArrayBody(<<1, 0, 0>>)>>,
     <<"POST", <<"api", "artworks", "1", "additional-images">>, ArrayBody(<<Image>>)>>,
     <<"PUT", <<"api", "exhibitions", "order">>,
       ArrayBody(<<[id |-> 1, order |-> 1], [id |-> 2, order |-> 0]>>)>>,
     <<"GET", <<"api", "exhibitions", "1">>, NoBody>>,
     <<"POST", <<"api", "exhibitions">>,
       Body(FALSE, <<>>, ExhibitionRequired, ExhibitionData)>>,
     <<"DELETE", <<"api", "artworks", "1">>, NoBody>>,
     <<"DELETE", <<"api", "artworks", "2">>, NoBody>>,
     <<"POST", <<"api", "upload">>, ArrayBody(<<Image>>)>>,
     <<"PUT", <<"api", "exhibitions", "1", "gallery">>, ArrayBody(<<>>)>>,
     <<"DELETE", <<"api", "exhibitions", "1">>, NoBody>>}

\* the requests to the public routes, and one to a path no route serves
PublicLines ==
    {<<"GET", <<"api", "artworks">>, NoBody>>,
     <<"GET", <<"api", "artworks", "1">>, NoBody>>,
     <<"GET", <<"api", "exhibitions">>, NoBody>>,
     <<"POST", <<"api", "artworks">>, Body(FALSE, <<>>, ArtworkRequired, ArtworkData)>>,
     <<"PUT", <<"api", "artworks", "order">>,
       ArrayBody(<<[id |-> 1, order |-> 1], [id |-> 2, order |-> 0]>>)>>}

\* no session, a session without the admin flag, an admin session of another
\* username, and the administrator's
GateSessions == {NoSession, Session(FALSE, "ivan"), Session(TRUE, "bob"), AdminSession}

Requests ==
    {Request(l[1], l[2], s, l[3]) : l \in GatedLines, s \in GateSessions}
    \cup {Request(l[1], l[2], NoSession, l[3]) : l \in PublicLines}

\* the tables of the model hold at most one created row each
Admissible(q) ==
    /\ q.method = "POST" /\ q.path = <<"api", "artworks">> => serial.artworks <= NumRecords
    /\ q.method = "POST" /\ q.path = <<"api", "exhibitions">>
        => serial.exhibitions <= NumRecords

Init == InitStore /\ Booted

Handle(r) ==
    \/ GetArtworks(r) \/ GetExhibitions(r) \/ GetArtwork(r) \/ GetExhibition(r)
    \/ GetSlots(r) \/ PutSlots(r) \/ CreateArtwork(r) \/ CreateExhibition(r)
    \/ ReorderExhibitions(r)
    \/ DeleteArtworkGet(r) \/ DeleteArtworkBlob(r) \/ DeleteArtworkRecord(r)
    \/ Upload(r)
    \/ AdditionalImagesGet(r) \/ AdditionalImagesUpload(r) \/ AdditionalImagesUpdate(r)
    \/ GalleryGet(r) \/ GalleryBlob(r) \/ GalleryUpdate(r)
    \/ DeleteExhibitionGet(r) \/ DeleteExhibitionPrimary(r)
    \/ DeleteExhibitionGallery(r) \/ DeleteExhibitionRecord(r)

\* the next request of the behaviour arrives
Serve(r) ==
    /\ ghost.served < MaxRequests
    /\ \E q \in Requests : Admissible(q) /\ Receive(r, q)
    /\ ghost' = [ghost EXCEPT !.served = @ + 1]
    /\ UNCHANGED client

Next == Serve("A") \/ Handle("A")

Spec == Init /\ [][Next]_vars

-----------------------------------------------------------------------------
(* SpecBoot: a server instance boots on an empty users table under any        *)
(* configuration of ADMIN_USERNAME and ADMIN_PASSWORD, then serves requests   *)
(* to gated routes under any session.                                         *)

BootRequests ==
    {Request("GET", <<"api", "storage", "diagnostics">>, s, NoBody) : s \in Sessions}
    \cup {Request("DELETE", <<"api", "artworks", "1">>, s, NoBody) : s \in Sessions}

InitBoot ==
    /\ InitStore
    /\ users = <<>>
    /\ env \in [ADMIN_USERNAME : {"", "ivan", "bob"}, ADMIN_PASSWORD : {"", "pw"},
               SMTP_HOST : {""}]
    /\ boot = [i \in Instances |-> [pc |-> IF i = "i1" THEN "select" ELSE "off",
                               err |-> FALSE]]

ServeBooted(r) ==
    /\ ghost.served < MaxRequests
    /\ \E q \in BootRequests : Receive(r, q)
    /\ ghost' = [ghost EXCEPT !.served = @ + 1]
    /\ UNCHANGED client

NextBoot ==
    \/ EnsureAdminUserSelect("i1")
    \/ EnsureAdminUserInsert("i1")
    \/ ServeBooted("A")
    \/ DeleteArtworkGet("A") \/ DeleteArtworkBlob("A") \/ DeleteArtworkRecord("A")

SpecBoot == InitBoot /\ [][NextBoot]_vars

-----------------------------------------------------------------------------
(* The authorization gate *)

\* the routes the specification lists as admin-gated
ListedAdminRoutes ==
    {"deleteArtwork", "additionalImages", "getSlots", "putSlots", "getExhibition",
     "createExhibition", "reorderExhibitions", "gallery", "deleteExhibition", "upload"}

\* the session is absent, lacks the admin flag, or carries another username
Unauthorised(s) == ~s.present \/ ~s.isAdmin \/ s.username # "ivan"

RejectedUniformly ==
    \A r \in Conns :
        reqs[r].h \in ListedAdminRoutes /\ Unauthorised(reqs[r].session)
        => /\ reqs[r].pc = "done" /\ reqs[r].status = 401 /\ reqs[r].resp = <<>>
           /\ ~reqs[r].invoked /\ reqs[r].trace = <<>>

RejectionChangesNothing ==
    \A r \in Conns :
        reqs'[r] # reqs[r] /\ reqs'[r].h \in ListedAdminRoutes
            /\ Unauthorised(reqs'[r].session)
        => UNCHANGED store

\* C1: a request to a listed admin-gated route whose session is absent, lacks the
\* admin flag or carries another username is answered 401 with the same body in
\* all three cases, its handler is never invoked, and the step that answers it
\* changes no table, setting or blob.
C1_GateRejects == []RejectedUniformly /\ [][RejectionChangesNothing]_vars

\* C1 witness: DELETE /api/exhibitions/1 under an admin-flagged session of another
\* username has been answered 401 and exhibition 1 is still there.
C1_Witness ==
    \E r \in Conns :
        /\ reqs[r].h = "deleteExhibition" /\ reqs[r].session = Session(TRUE, "bob")
        /\ reqs[r].status = 401 /\ reqs[r].id \in DOMAIN exhibitions

\* the acting request of a step carries the administrator's session
ActorIsAdmin ==
    \E r \in Conns : reqs'[r] # reqs[r] /\ ~Unauthorised(reqs'[r].session)

\* C2: every step that creates, changes or deletes an artwork, an exhibition or
\* a blob is taken by a request that carries the administrator's session.
C2_OnlyAdminMutates ==
    [][(artworks' # artworks \/ exhibitions' # exhibitions \/ bucket' # bucket)
        => ActorIsAdmin]_vars

\* C3: once the account is seeded, the gate lets a request through exactly when
\* its session carries the admin flag and the seeded account's username.
C3_GateMatchesSeededAccount ==
    \A r \in Conns :
        reqs[r].route # 0 /\ Routes[reqs[r].route].gated /\ Len(users) > 0
        => ((reqs[r].status # 401)
             <=> (reqs[r].session.present /\ reqs[r].session.isAdmin
                    /\ reqs[r].session.username = users[1]))

-----------------------------------------------------------------------------
(* SpecReorder: one administrator submits an order mapping for the             *)
(* exhibitions, possibly a second time, and the collection is read back; or    *)
(* storage.reorderArtworks is applied and the artworks are read back.          *)

Pairs == [id : RecordIds, order : Orders]

\* the arrays a reorder may be given: any pairs, ids and orders may repeat
ReorderBodies == UNION {[1..n -> Pairs] : n \in 0..NumRecords}

\* storage.reorderArtworks: the first n updates of the loop
RECURSIVE reorderArtworks(_, _, _)
reorderArtworks(t, items, n) ==
    IF n = 0 THEN t
    ELSE setOrder(reorderArtworks(t, items, n - 1), items[n].id, items[n].order)

PutExhibitionsOrder(items) ==
    Request("PUT", <<"api", "exhibitions", "order">>, AdminSession, ArrayBody(items))

InitOrders == {[i \in RecordIds |-> i - 1], [i \in RecordIds |-> NumRecords - i]}

InitReorder ==
    /\ artworks = [i \in RecordIds |-> InitArtworkRow(i)]
    /\ \E o \in InitOrders :
         exhibitions = [i \in RecordIds |-> [InitExhibitionRow(i) EXCEPT !.order = o[i]]]
    /\ siteSettings = [slots |-> <<>>]
    /\ bucket = {<<"a">>, <<"b">>, <<"c">>}
    /\ serial = [artworks |-> NumRecords, exhibitions |-> NumRecords, contact |-> 0]
    /\ contactMessages = <<>>
    /\ reqs = [r \in Conns |-> Idle]
    /\ client = InitClient
    /\ ghost = InitGhost
    /\ Booted

SubmitOrder(r) ==
    /\ ghost.attempt = 0 /\ ghost.art = <<>>
    /\ \E items \in ReorderBodies :
        /\ Receive(r, PutExhibitionsOrder(items))
        /\ ghost' = [ghost EXCEPT !.attempt = 1, !.sub = items, !.before = exhibitions]
    /\ UNCHANGED client

SubmitAgain(r) ==
    /\ ghost.attempt = 1
    /\ reqs[r].h = "reorderExhibitions" /\ reqs[r].pc = "done" /\ reqs[r].status = 200
    /\ Receive(r, PutExhibitionsOrder(ghost.sub))
    /\ ghost' = [ghost EXCEPT !.attempt = 2, !.first = exhibitions]
    /\ UNCHANGED client

ReadBack(r) ==
    /\ reqs[r].h = "reorderExhibitions" /\ reqs[r].pc = "done"
    /\ Receive(r, Request("GET", <<"api", "exhibitions">>, NoSession, NoBody))
    /\ ghost' = [ghost EXCEPT !.ok = (reqs[r].status = 200)]
    /\ UNCHANGED client

\* a call of storage.reorderArtworks(items) in which the first n updates succeed
StorageReorderArtworks ==
    /\ ghost.attempt = 0 /\ ghost.art = <<>>
    /\ \E items \in ReorderBodies : \E n \in 0..Len(items) :
        /\ artworks' = reorderArtworks(artworks, items, n)
        /\ ghost' = [ghost EXCEPT !.art = <<[items |-> items, applied |-> n]>>]
    /\ UNCHANGED <<exhibitions, siteSettings, users, contactMessages, bucket, serial,
                   env, boot, reqs, client>>

ReadBackArtworks(r) ==
    /\ ghost.art # <<>>
    /\ reqs[r].pc = "idle"
    /\ Arrive(r, Request("GET", <<"api", "artworks">>, NoSession, NoBody))

NextReorder ==
    \/ SubmitOrder("A")
    \/ SubmitAgain("A")
    \/ ReorderExhibitions("A")
    \/ ReadBack("A")
    \/ GetExhibitions("A")
    \/ StorageReorderArtworks
    \/ ReadBackArtworks("A")
    \/ GetArtworks("A")

SpecReorder == InitReorder /\ [][NextReorder]_vars

-----------------------------------------------------------------------------
(* SpecRace: two administrators submit full mappings at the same time.         *)

\* the full mappings: every record, pairwise distinct order values
RaceBodies ==
    {[i \in 1..NumRecords |-> [id |-> i, order |-> p[i]]] : p \in Enumerations(Orders)}

SubmitRace(r) ==
    /\ reqs[r].pc = "idle"
    /\ \E items \in RaceBodies : Arrive(r, PutExhibitionsOrder(items))

NextRace == \E r \in Conns : SubmitRace(r) \/ ReorderExhibitions(r)

SpecRace == Init /\ [][NextRace]_vars

-----------------------------------------------------------------------------
(* Reordering *)

Ids(items) == {items[i].id : i \in 1..Len(items)}

\* the mapping has one pair for every record of the collection
Full(items, t) == Ids(items) = DOMAIN t /\ Len(items) = Cardinality(DOMAIN t)

DistinctOrders(items) ==
    \A i, j \in 1..Len(items) : i # j => items[i].order # items[j].order

\* the position of the pair the mapping has for the record id
Submitted(items, id) == (CHOOSE i \in 1..Len(items) : items[i].id = id)

\* the list has every record of t once, ascending by the orders of the mapping,
\* each with the order the mapping gave it
ReadsAs(list, items, t) ==
    /\ {list[i].id : i \in 1..Len(list)} = DOMAIN t /\ Len(list) = Len(items)
    /\ \A i \in 1..Len(list) : list[i].order = items[Submitted(items, list[i].id)].order
    /\ \A i, j \in 1..Len(list) :
         i < j => items[Submitted(items, list[i].id)].order
                    < items[Submitted(items, list[j].id)].order

\* C4: after a reorder that covers the whole collection with pairwise distinct
\* order values, in which no update failed and nothing interleaved, GET
\* /api/exhibitions (and getArtworks after reorderArtworks) returns the records
\* ascending by the submitted order values.
C4_ReadBackSorted ==
    \A r \in Conns :
        /\ (reqs[r].h = "getExhibitions" /\ reqs[r].pc = "done" /\ reqs[r].status = 200
              /\ ghost.ok /\ Full(ghost.sub, exhibitions) /\ DistinctOrders(ghost.sub))
           => ReadsAs(reqs[r].resp, ghost.sub, exhibitions)
        /\ (reqs[r].h = "getArtworks" /\ reqs[r].pc = "done" /\ reqs[r].status = 200
              /\ ghost.art # <<>>)
           => LET a == ghost.art[1]
              IN  (a.applied = Len(a.items) /\ Full(a.items, artworks)
                     /\ DistinctOrders(a.items))
                  => ReadsAs(reqs[r].resp, a.items, artworks)

\* C4 witness: a full mapping with distinct orders was applied without failure and
\* the exhibitions read back in another sequence than the one they had before.
C4_Witness ==
    \E r \in Conns :
        /\ reqs[r].h = "getExhibitions" /\ reqs[r].pc = "done" /\ reqs[r].status = 200
        /\ ghost.ok /\ Full(ghost.sub, exhibitions) /\ DistinctOrders(ghost.sub)
        /\ Len(reqs[r].resp) >= 2
        /\ ghost.before[reqs[r].resp[1].id].order > ghost.before[reqs[r].resp[2].id].order

\* C5: when two full mappings are submitted concurrently and both are answered
\* 200, the persisted orders equal one of the two mappings in full.
C5_LastWriterWinsInFull ==
    (\A r \in Conns : reqs[r].h = "reorderExhibitions" /\ reqs[r].pc = "done"
                        /\ reqs[r].status = 200)
    => \E r \in Conns :
         \A i \in 1..Len(reqs[r].body.items) :
            exhibitions[reqs[r].body.items[i].id].order = reqs[r].body.items[i].order

\* the table as it was when the reorder in progress was submitted
AtSubmission == IF ghost.attempt = 2 THEN ghost.first ELSE ghost.before

\* the order of record id after the first n pairs were applied to the table t
AfterPairs(t, items, n, id) ==
    IF \E i \in 1..n : items[i].id = id
    THEN LET last == CHOOSE i \in 1..n :
                        items[i].id = id /\ \A j \in 1..n : items[j].id = id => j <= i
         IN  items[last].order
    ELSE t[id].order

\* C6: when the k-th update of a reorder fails, the request is answered 500, no
\* update after the k-th is issued, the pairs before k are persisted and every
\* other record keeps the order it had at submission.
C6_PartialNoRollback ==
    \A r \in Conns : \A k \in 1..Len(reqs[r].trace) :
        (reqs[r].h = "reorderExhibitions" /\ reqs[r].trace[k].out = "error")
        => /\ reqs[r].pc = "done" /\ reqs[r].status = 500
           /\ Len(reqs[r].trace) = k
           /\ \A i \in 1..(k - 1) : reqs[r].trace[i].out = "ok"
           /\ DOMAIN exhibitions = DOMAIN AtSubmission
           /\ \A id \in DOMAIN exhibitions :
                exhibitions[id].order
                    = AfterPairs(AtSubmission, reqs[r].body.items, k - 1, id)

\* C6 witness: the second update failed after the first changed its record, and
\* the record of the second pair still has its old order, not the submitted one.
C6_Witness ==
    \E r \in Conns :
        /\ reqs[r].h = "reorderExhibitions" /\ reqs[r].status = 500
        /\ Len(reqs[r].trace) = 2
        /\ LET p == reqs[r].body.items[1]
               q == reqs[r].body.items[2]
           IN  /\ p.id # q.id
               /\ exhibitions[p.id].order = p.order
               /\ ghost.before[p.id].order # p.order
               /\ exhibitions[q.id].order = ghost.before[q.id].order
               /\ exhibitions[q.id].order # q.order

\* C7: when a full mapping is submitted a second time after it was applied, the
\* persisted order of every record is what it was after the first submission.
C7_Idempotent ==
    \A r \in Conns :
        (ghost.attempt = 2 /\ reqs[r].h = "reorderExhibitions" /\ reqs[r].pc = "done"
           /\ reqs[r].status = 200 /\ Full(ghost.sub, exhibitions))
        => \A id \in DOMAIN exhibitions : exhibitions[id].order = ghost.first[id].order

\* C7 witness: a full mapping that changed the orders the first time has been
\* applied a second time.
C7_Witness ==
    \E r \in Conns :
        /\ ghost.attempt = 2 /\ reqs[r].h = "reorderExhibitions" /\ reqs[r].pc = "done"
        /\ reqs[r].status = 200 /\ Full(ghost.sub, exhibitions)
        /\ ghost.first # ghost.before

-----------------------------------------------------------------------------
(* The admin page: the artworks query, the ordered list, drag and drop, save.  *)

ClientRecords == 3

\* items.splice(i, 1) at the 0-based index i: the list without that element
spliceOut(items, i) == SubSeq(items, 1, i) \o SubSeq(items, i + 2, Len(items))

\* items.splice(i, 0, moved) at the 0-based index i
spliceIn(items, i, moved) ==
    LET k == IF i > Len(items) THEN Len(items) ELSE i
    IN  SubSeq(items, 1, k) \o <<moved>> \o SubSeq(items, k + 1, Len(items))

\* a faulty variant: orders counted from one
reindexedFromOne(items) == [i \in 1..Len(items) |-> [items[i] EXCEPT !.order = i]]

\* items.map((a, idx) => ({ ...a, order: idx }))
reindexed(items) == [i \in 1..Len(items) |-> [items[i] EXCEPT !.order = i - 1]]

\* onDragEnd(result): the next artworksOrder; destination <<>> is no destination
onDragEnd(list, source, destination) ==
    IF destination = <<>> THEN list
    ELSE reindexed(spliceIn(spliceOut(list, source), destination[1], list[source + 1]))

\* [...list].sort((a, b) => (a.order ?? 0) - (b.order ?? 0)): the sort is stable
RECURSIVE sortByOrder(_)
sortByOrder(list) ==
    IF list = <<>> THEN <<>>
    ELSE LET init == sortByOrder(SubSeq(list, 1, Len(list) - 1))
             x == list[Len(list)]
             k == Cardinality({i \in 1..Len(init) : init[i].order <= x.order})
         IN  SubSeq(init, 1, k) \o <<x>> \o SubSeq(init, k + 1, Len(init))

\* handleOrderChange(id, newOrder)
handleOrderChange(list, id, newOrder) ==
    sortByOrder([i \in 1..Len(list) |->
                    IF list[i].id = id THEN [list[i] EXCEPT !.order = newOrder]
                    ELSE list[i]])

GetArtworksRequest == Request("GET", <<"api", "artworks">>, AdminSession, NoBody)

Interactive == {"ready", "dropped", "saved"}

\* useArtworks() on mount
ClientMount ==
    /\ client.pc = "off"
    /\ Receive("A", GetArtworksRequest)
    /\ client' = [client EXCEPT !.pc = "loading"]
    /\ UNCHANGED ghost

\* the query settles; useEffect([artworks]) sorts the new data into artworksOrder
ClientLoaded ==
    /\ client.pc \in {"loading", "refetching"}
    /\ reqs["A"].pc = "done" /\ reqs["A"].h = "getArtworks"
    /\ LET to == IF client.pc = "loading" THEN "ready" ELSE "saved"
           res == reqs["A"].resp
       IN  IF reqs["A"].status = 200
           THEN \/ client' = [client EXCEPT !.pc = to, !.data = <<res>>,
                                            !.artworksOrder = sortByOrder(res)]
                \/ /\ client.data = <<res>>
                   /\ client' = [client EXCEPT !.pc = to]
           ELSE client' = [client EXCEPT !.pc = to]
    /\ UNCHANGED <<store, env, boot, reqs, ghost>>

OnDragEnd ==
    /\ client.pc \in Interactive
    /\ Len(client.artworksOrder) > 0
    /\ \E source \in 0..(Len(client.artworksOrder) - 1) :
       \E destination \in {<<>>} \cup {<<d>> : d \in 0..(Len(client.artworksOrder) - 1)} :
        /\ client' = [client EXCEPT
                !.pc = "dropped", !.submitted = <<>>,
                !.artworksOrder = onDragEnd(client.artworksOrder, source, destination)]
        /\ ghost' = [ghost EXCEPT !.drop = <<[before |-> client.artworksOrder,
                                              source |-> source,
                                              destination |-> destination]>>]
    /\ UNCHANGED <<store, env, boot, reqs>>

HandleOrderChange ==
    /\ client.pc \in Interactive
    /\ \E i \in 1..Len(client.artworksOrder) : \E newOrder \in 0..(ClientRecords - 1) :
        client' = [client EXCEPT
            !.pc = "ready", !.submitted = <<>>,
            !.artworksOrder =
                handleOrderChange(client.artworksOrder, client.artworksOrder[i].id, newOrder)]
    /\ ghost' = [ghost EXCEPT !.drop = <<>>]
    /\ UNCHANGED <<store, env, boot, reqs>>

\* handleSaveOrder: the fetch of PUT /api/artworks/order
HandleSaveOrder ==
    /\ client.pc \in Interactive
    /\ Receive("A", Request("PUT", <<"api", "artworks", "order">>, AdminSession,
            ArrayBody([i \in 1..Len(client.artworksOrder) |->
                [id |-> client.artworksOrder[i].id,
                 order |-> client.artworksOrder[i].order]])))
    /\ client' = [client EXCEPT !.pc = "saving", !.submitted = client.artworksOrder]
    /\ ghost' = [ghost EXCEPT !.drop = <<>>]

\* handleSaveOrder: await refetch() once the fetch has resolved, whatever its status
ClientRefetch ==
    /\ client.pc = "saving"
    /\ reqs["A"].pc = "done"
    /\ Receive("A", GetArtworksRequest)
    /\ client' = [client EXCEPT !.pc = "refetching"]
    /\ UNCHANGED ghost

InitAdminPage ==
    /\ artworks = [i \in 1..ClientRecords |-> InitArtworkRow(i)]
    /\ exhibitions = [i \in RecordIds |-> InitExhibitionRow(i)]
    /\ siteSettings = [slots |-> <<>>]
    /\ bucket = {<<"a">>, <<"b">>, <<"c">>}
    /\ serial = [artworks |-> ClientRecords, exhibitions |-> NumRecords, contact |-> 0]
    /\ contactMessages = <<>>
    /\ reqs = [r \in Conns |-> Idle]
    /\ client = InitClient
    /\ ghost = InitGhost
    /\ Booted

NextAdminPage ==
    \/ ClientMount
    \/ GetArtworks("A")
    \/ ClientLoaded
    \/ OnDragEnd
    \/ HandleOrderChange
    \/ HandleSaveOrder
    \/ ClientRefetch

SpecAdminPage == InitAdminPage /\ [][NextAdminPage]_vars

IdsOf(list) == [i \in 1..Len(list) |-> list[i].id]

\* C8: once the admin page has saved a dragged order and refetched, the list GET
\* /api/artworks returned has the artworks in the saved arrangement.
C8_SavedOrderServed ==
    (client.pc = "saved" /\ reqs["A"].h = "getArtworks" /\ reqs["A"].status = 200)
    => IdsOf(reqs["A"].resp) = IdsOf(client.submitted)

\* the 0-based index of the record id in the list
IndexIn(list, id) == (CHOOSE i \in 1..Len(list) : list[i].id = id) - 1

\* C9: after a drop, artworksOrder is a permutation of the list before it, the
\* moved record is at the destination index, the other records keep their
\* relative sequence and the record at index i has order i; a drop without a
\* destination leaves the list as it was.
C9_OnDragEndPermutes ==
    (client.pc = "dropped" /\ ghost.drop # <<>>)
    => LET b == ghost.drop[1].before
           a == client.artworksOrder
           src == ghost.drop[1].source
           dst == ghost.drop[1].destination
       IN  IF dst = <<>> THEN a = b
           ELSE /\ Len(a) = Len(b)
                /\ \A i \in 1..Len(b) : \E j \in 1..Len(a) :
                      [a[j] EXCEPT !.order = 0] = [b[i] EXCEPT !.order = 0]
                /\ a[dst[1] + 1].id = b[src + 1].id
                /\ \A i, j \in 1..Len(b) :
                      (i < j /\ i # src + 1 /\ j # src + 1)
                      => IndexIn(a, b[i].id) < IndexIn(a, b[j].id)
                /\ \A i \in 1..Len(a) : a[i].order = i - 1

\* C9 witness: a record was dropped two places away in a list whose orders were
\* not the indices, so that the records in between moved and were renumbered.
C9_Witness ==
    /\ client.pc = "dropped" /\ ghost.drop # <<>>
    /\ ghost.drop[1].destination # <<>>
    /\ ghost.drop[1].destination[1] = ghost.drop[1].source + 2
    /\ \E i \in 1..Len(ghost.drop[1].before) : ghost.drop[1].before[i].order # i - 1
    /\ Len(client.artworksOrder) = Len(ghost.drop[1].before)

-----------------------------------------------------------------------------
(* Deleting an artwork *)

\* the positions of the trace at which the call ev was issued
Calls(trace, ev) == {i \in 1..Len(trace) : trace[i].ev = ev}

\* the request deletes an artwork it found with a primary image in the bucket
DeletesManaged(rec) ==
    /\ rec.h = "deleteArtwork" /\ rec.existing # <<>>
    /\ IsManaged(rec.existing[1].imageUrl)

\* C10: a delete of an existing artwork whose image is in the managed bucket
\* issues exactly one blob removal, before the record deletion; whatever the
\* outcome of the removal the record deletion is issued, and unless the store
\* itself fails the record is gone and the answer is 200.
C10_OneBlobAttemptThenDelete ==
    \A r \in Conns :
        DeletesManaged(reqs[r])
        => LET t == reqs[r].trace
           IN  /\ Cardinality(Calls(t, "remove")) <= 1
               /\ Cardinality(Calls(t, "deleteArtwork")) <= 1
               /\ \A i \in Calls(t, "deleteArtwork") :
                     Calls(t, "remove") = {i - 1}
               /\ reqs[r].pc = "done"
                  => /\ Calls(t, "remove") = {1} /\ Calls(t, "deleteArtwork") = {2}
                     /\ t[1].arg = pathToRemove(reqs[r].existing[1].imageUrl)[1]
                     /\ t[2].out = "ok"
                        => reqs[r].status = 200 /\ reqs[r].id \notin DOMAIN artworks
                     /\ t[2].out # "ok" => reqs[r].status = 500

\* C10 witness: the blob removal failed, the record is gone and the answer is 200.
C10_Witness ==
    \E r \in Conns :
        /\ DeletesManaged(reqs[r]) /\ reqs[r].pc = "done" /\ reqs[r].status = 200
        /\ reqs[r].trace[1].ev = "remove" /\ reqs[r].trace[1].out \in {"error", "throw"}
        /\ reqs[r].id \notin DOMAIN artworks

-----------------------------------------------------------------------------
(* SpecRecords: the administrator attaches images to artworks, updates         *)
(* galleries and deletes records, by ids that exist and by an id that does     *)
(* not.                                                                        *)

\* an id no row has: the serial counters of the model stay below it
MissingId == "5"

OneImage == ArrayBody(<<Image>>)

RecordLines ==
    {<<"DELETE", <<"api", "artworks", i>>, NoBody>> : i \in {"1", "2", MissingId}}
    \cup {<<"DELETE", <<"api", "exhibitions", i>>, NoBody>> : i \in {"1", "2", MissingId}}
    \cup {<<"PUT", <<"api", "exhibitions", i, "gallery">>, ArrayBody(<<>>)>> :
            i \in {"1", MissingId}}
    \cup {<<"POST", <<"api", "artworks", i, "additional-images">>, OneImage>> :
            i \in {"1", MissingId}}

RecordRequests == {Request(l[1], l[2], AdminSession, l[3]) : l \in RecordLines}

ServeRecords(r) ==
    /\ ghost.served < MaxRequests
    /\ \E q \in RecordRequests : Receive(r, q)
    /\ ghost' = [ghost EXCEPT !.served = @ + 1]
    /\ UNCHANGED client

NextRecords ==
    \/ ServeRecords("A")
    \/ DeleteArtworkGet("A") \/ DeleteArtworkBlob("A") \/ DeleteArtworkRecord("A")
    \/ DeleteExhibitionGet("A") \/ DeleteExhibitionPrimary("A")
    \/ DeleteExhibitionGallery("A") \/ DeleteExhibitionRecord("A")
    \/ GalleryGet("A") \/ GalleryBlob("A") \/ GalleryUpdate("A")
    \/ AdditionalImagesGet("A") \/ AdditionalImagesUpload("A")
    \/ AdditionalImagesUpdate("A")

SpecRecords == Init /\ [][NextRecords]_vars

-----------------------------------------------------------------------------
(* Deleting records and their blobs *)

\* the managed-store URLs the record found by a delete request refers to
Referenced(rec) ==
    LET row == rec.existing[1]
        all == IF rec.h = "deleteArtwork"
               THEN {row.imageUrl} \cup {row.additionalImages[i] :
                                            i \in 1..Len(row.additionalImages)}
               ELSE {row.imageUrl} \cup {row.galleryImages[i].url :
                                            i \in 1..Len(row.galleryImages)}
    IN  {u \in all : IsManaged(u)}

\* the paths of the blob removals the request issued, in the order of issue
Removals(trace) ==
    LET rm == SelectSeq(trace, LAMBDA e : e.ev = "remove")
    IN  [i \in 1..Len(rm) |-> rm[i].arg]

\* C11: when a delete of an artwork or exhibition has answered 200, a removal
\* has been issued for every managed-store blob the record referred to: the
\* primary image and every supplementary or gallery image.
C11_BlobsFollowRecord ==
    \A r \in Conns :
        (reqs[r].h \in {"deleteArtwork", "deleteExhibition"} /\ reqs[r].pc = "done"
           /\ reqs[r].status = 200 /\ reqs[r].existing # <<>>)
        => \A u \in Referenced(reqs[r]) :
             \E i \in 1..Len(Removals(reqs[r].trace)) :
                Removals(reqs[r].trace)[i] = pathToRemove(u)[1]

\* the removals a delete of the exhibition row is to issue: primary, then gallery
ExhibitionBlobs(row) ==
    (IF IsManaged(row.imageUrl) THEN <<pathToRemove(row.imageUrl)[1]>> ELSE <<>>)
    \o pathsToRemove([i \in 1..Len(row.galleryImages) |-> row.galleryImages[i].url])

\* C12: a delete of an existing exhibition issues the removal of the primary
\* image and of every gallery image before the record deletion, whatever the
\* outcome of each removal, and the record deletion is issued after them.
C12_EveryBlobAttempted ==
    \A r \in Conns :
        (reqs[r].h = "deleteExhibition" /\ reqs[r].existing # <<>>)
        => /\ reqs[r].pc \in {"de_delete", "done"}
              => Removals(reqs[r].trace) = ExhibitionBlobs(reqs[r].existing[1])
           /\ reqs[r].pc = "done"
              => /\ Calls(reqs[r].trace, "deleteExhibition") = {Len(reqs[r].trace)}
                 /\ reqs[r].status = 500
                    => reqs[r].trace[Len(reqs[r].trace)].out = "error"

NeedsRecord == {"deleteArtwork", "deleteExhibition", "gallery", "additionalImages"}

\* the table the handler looks its record up in
TableOf(h) == IF h \in {"deleteArtwork", "additionalImages"} THEN artworks ELSE exhibitions

\* the request asked for a record that does not exist, and the lookup answered
AsksMissing(rec) ==
    /\ rec.h \in NeedsRecord /\ rec.invoked
    /\ rec.id \notin DOMAIN TableOf(rec.h) /\ rec.existing = <<>>

MissingAnswered404 ==
    \A r \in Conns :
        (AsksMissing(reqs[r]) /\ reqs[r].pc = "done" /\ reqs[r].status \notin {400, 500})
        => reqs[r].status = 404 /\ reqs[r].trace = <<>>

MissingChangesNothing ==
    \A r \in Conns :
        (AsksMissing(reqs[r]) /\ reqs[r].pc \notin {"idle", "done"}
           /\ reqs'[r] # reqs[r])
        => UNCHANGED <<artworks, exhibitions, bucket>>

\* C13: delete artwork, delete exhibition, gallery update and additional images
\* on an id that matches no record are answered 404 unless the store fails,
\* issue no removal, upload or write, and change no record or blob.
C13_MissingIs404 == []MissingAnswered404 /\ [][MissingChangesNothing]_vars

-----------------------------------------------------------------------------
(* SpecImages: the administrator creates artworks and attaches batches of      *)
(* supplementary images to artwork 1, one request after the other.             *)

\* req.files of a batch of k images
Batch(k) == ArrayBody([i \in 1..k |-> Image])

ImageRequests ==
    {Request("POST", <<"api", "artworks", "1", "additional-images">>, AdminSession,
             Batch(k)) : k \in 0..(MaxBatch + 1)}
    \cup {Request("POST", <<"api", "artworks">>, AdminSession,
                  Body(FALSE, <<>>, ArtworkRequired, ArtworkData))}

ServeImages(r) ==
    /\ ghost.served < MaxRequests
    /\ \E q \in ImageRequests : Admissible(q) /\ Receive(r, q)
    /\ ghost' = [ghost EXCEPT !.served = @ + 1]
    /\ UNCHANGED client

NextImages ==
    \/ ServeImages("A")
    \/ CreateArtwork("A")
    \/ AdditionalImagesGet("A") \/ AdditionalImagesUpload("A")
    \/ AdditionalImagesUpdate("A")

SpecImages == Init /\ [][NextImages]_vars

-----------------------------------------------------------------------------
(* Supplementary images *)

\* C14: every artwork's persisted supplementary-image list has at most 3
\* entries, and no additional-images request is answered with a longer list.
C14_AtMostThreeSupplementary ==
    /\ \A id \in DOMAIN artworks : Len(artworks[id].additionalImages) <= MaxBatch
    /\ \A r \in Conns :
         (reqs[r].h = "additionalImages" /\ reqs[r].pc = "done" /\ reqs[r].status = 200)
         => Len(reqs[r].resp) <= MaxBatch

OversizedIs400 ==
    \A r \in Conns :
        (reqs[r].h = "additionalImages" /\ Len(reqs[r].body.items) > MaxBatch)
        => /\ reqs[r].pc = "done" /\ reqs[r].status = 400
           /\ reqs[r].trace = <<>>

OversizedChangesNothing ==
    \A r \in Conns :
        (reqs'[r] # reqs[r] /\ reqs'[r].h = "additionalImages"
           /\ Len(reqs'[r].body.items) > MaxBatch)
        => UNCHANGED <<artworks, bucket>>

\* C15: an additional-images request with more than 3 files is answered 400,
\* uploads no blob and leaves the artwork's supplementary list unchanged.
C15_OversizedBatchIs400 == []OversizedIs400 /\ [][OversizedChangesNothing]_vars

\* the URLs of the uploads of the trace that succeeded, in the order of issue
Uploaded(trace) ==
    LET up == SelectSeq(trace, LAMBDA e : e.ev = "upload" /\ e.out = "ok")
    IN  [i \in 1..Len(up) |-> getPublicUrl(up[i].arg[1])]

\* C16: when a batch of 1 to 3 files on an existing artwork is answered 200, one
\* upload per file was issued, and the persisted list is the list the artwork
\* had followed by the new URLs in upload order; the response carries that list.
C16_AppendsInUploadOrder ==
    \A r \in Conns :
        (reqs[r].h = "additionalImages" /\ reqs[r].pc = "done" /\ reqs[r].status = 200)
        => LET before == reqs[r].existing[1].additionalImages
               new    == Uploaded(reqs[r].trace)
           IN  /\ Len(new) = Len(reqs[r].body.items)
               /\ Len(new) \in 1..MaxBatch
               /\ artworks[reqs[r].id].additionalImages = before \o new
               /\ reqs[r].resp = before \o new

\* C16 witness: a batch of two was appended to a list that was not empty.
C16_Witness ==
    \E r \in Conns :
        /\ reqs[r].h = "additionalImages" /\ reqs[r].pc = "done" /\ reqs[r].status = 200
        /\ Len(reqs[r].body.items) = 2
        /\ reqs[r].existing[1].additionalImages # <<>>
        /\ Len(artworks[reqs[r].id].additionalImages)
             = Len(reqs[r].existing[1].additionalImages) + 2

\* C17: when the upload of a file of the batch fails, the request is answered
\* with an error, nothing is issued after the failed upload, and the persisted
\* supplementary list is the one the artwork had before the call.
C17_FailFastNoPartialCommit ==
    \A r \in Conns : \A i \in 1..Len(reqs[r].trace) :
        (reqs[r].h = "additionalImages" /\ reqs[r].trace[i].ev = "upload"
           /\ reqs[r].trace[i].out = "error")
        => /\ reqs[r].pc = "done" /\ reqs[r].status = 500
           /\ Len(reqs[r].trace) = i
           /\ artworks[reqs[r].id].additionalImages
                = reqs[r].existing[1].additionalImages

\* C17 witness: the second upload of a batch failed after the first had stored
\* its blob, and the artwork's list is still the one before the call.
C17_Witness ==
    \E r \in Conns :
        /\ reqs[r].h = "additionalImages" /\ reqs[r].status = 500
        /\ Len(reqs[r].trace) = 2
        /\ reqs[r].trace[1].ev = "upload" /\ reqs[r].trace[1].out = "ok"
        /\ reqs[r].trace[2].ev = "upload" /\ reqs[r].trace[2].out = "error"
        /\ reqs[r].trace[1].arg \in bucket
        /\ artworks[reqs[r].id].additionalImages = reqs[r].existing[1].additionalImages

-----------------------------------------------------------------------------
(* SpecForms: valid and invalid submissions to the routes that validate their  *)
(* input, on a server with or without SMTP configured.                         *)

MaxForms == 2

ContactData == [name |-> "n"]

FormLines ==
    {<<"POST", <<"api", "artworks">>, Body(FALSE, <<>>, ArtworkRequired, ArtworkData)>>,
     <<"POST", <<"api", "artworks">>, Body(FALSE, <<>>, {"title"}, ArtworkData)>>,
     <<"POST", <<"api", "exhibitions">>,
       Body(FALSE, <<>>, ExhibitionRequired, ExhibitionData)>>,
     <<"POST", <<"api", "exhibitions">>, Body(FALSE, <<>>, {"title"}, ExhibitionData)>>,
     <<"POST", <<"api", "contact">>, Body(FALSE, <<>>, ContactRequired, ContactData)>>,
     <<"POST", <<"api", "contact">>, Body(FALSE, <<>>, {"name"}, ContactData)>>,
     <<"GET", <<"api", "artworks", "slots">>, NoBody>>,
     <<"PUT", <<"api", "artworks", "slots">>, ArrayBody(<<1, 0, 0>>)>>,
     <<"PUT", <<"api", "artworks", "slots">>, ArrayBody(<<1, 0>>)>>,
     <<"PUT", <<"api", "artworks", "slots">>, ArrayBody(<<1, 0, 0, 2>>)>>,
     <<"PUT", <<"api", "artworks", "slots">>, NoBody>>,
     <<"PUT", <<"api", "exhibitions", "order">>,
       ArrayBody(<<[id |-> 1, order |-> 1], [id |-> 2, order |-> 0]>>)>>,
     <<"PUT", <<"api", "exhibitions", "order">>, NoBody>>,
     <<"PUT", <<"api", "exhibitions", "1", "gallery">>, ArrayBody(<<>>)>>,
     <<"PUT", <<"api", "exhibitions", "1", "gallery">>, NoBody>>,
     <<"POST", <<"api", "artworks", "1", "additional-images">>, Batch(0)>>,
     <<"POST", <<"api", "artworks", "1", "additional-images">>, Batch(1)>>}

FormRequests == {Request(l[1], l[2], AdminSession, l[3]) : l \in FormLines}

InitForms ==
    /\ InitStore
    /\ users = <<"ivan">>
    /\ env \in [ADMIN_USERNAME : {""}, ADMIN_PASSWORD : {"pw"}, SMTP_HOST : {"", "smtp"}]
    /\ boot = [i \in Instances |-> [pc |-> IF i = "i1" THEN "done" ELSE "off",
                               err |-> FALSE]]

ServeForms(r) ==
    /\ ghost.served < MaxForms
    /\ \E q \in FormRequests : Receive(r, q)
    /\ ghost' = [ghost EXCEPT !.served = @ + 1]
    /\ UNCHANGED client

NextForms ==
    \/ ServeForms("A")
    \/ CreateArtwork("A") \/ CreateExhibition("A")
    \/ Contact("A") \/ ContactMail("A")
    \/ GetSlots("A") \/ PutSlots("A")
    \/ ReorderExhibitions("A")
    \/ GalleryGet("A") \/ GalleryBlob("A") \/ GalleryUpdate("A")
    \/ AdditionalImagesGet("A") \/ AdditionalImagesUpload("A")
    \/ AdditionalImagesUpdate("A")

SpecForms == InitForms /\ [][NextForms]_vars

-----------------------------------------------------------------------------
(* Validation and upstream failures *)

\* the body of the request does not pass the validation of its handler
FailsValidation(rec) ==
    /\ rec.invoked
    /\ \/ rec.h = "createArtwork" /\ ~(ArtworkRequired \subseteq rec.body.fields)
       \/ rec.h = "createExhibition" /\ ~(ExhibitionRequired \subseteq rec.body.fields)
       \/ rec.h = "contact" /\ ~(ContactRequired \subseteq rec.body.fields)
       \/ rec.h = "putSlots" /\ (~rec.body.isArray \/ Len(rec.body.items) # SlotsLen)
       \/ rec.h \in {"reorderExhibitions", "gallery"} /\ ~rec.body.isArray
       \/ rec.h = "additionalImages" /\ rec.body.items = <<>>

\* the calls that write to the relational store or the object store
Writes ==
    {"createArtwork", "createExhibition", "createContactMessage", "setSlots", "update",
     "updateExhibitionGallery", "updateArtwork", "upload", "remove"}

\* C18: a request that fails validation is answered 400 with no write issued,
\* and no request answered 400 has issued a write.
C18_ValidationAtBoundary ==
    \A r \in Conns :
        /\ FailsValidation(reqs[r])
           => reqs[r].pc = "done" /\ reqs[r].status = 400 /\ reqs[r].trace = <<>>
        /\ (reqs[r].pc = "done" /\ reqs[r].status = 400)
           => \A i \in 1..Len(reqs[r].trace) : reqs[r].trace[i].ev \notin Writes

\* the calls to the relational store that the trace records
RelationalCalls == Writes \ {"upload", "remove"}

\* C19: a request never stays without a response, and one whose call to the
\* relational store failed is answered 500.
C19_UpstreamIs500 ==
    \A r \in Conns :
        /\ reqs[r].pc # "hung"
        /\ \A i \in 1..Len(reqs[r].trace) :
             (reqs[r].trace[i].ev \in RelationalCalls /\ reqs[r].trace[i].out = "error")
             => reqs[r].pc = "done" /\ reqs[r].status = 500

\* C20: once the insert of a contact request has succeeded, exactly one row with
\* the generated id is in the table, it was written before any mail was sent,
\* at most one mail is attempted, and the answer is 201 with that id whether
\* the mail is skipped, sent or fails.
C20_ContactPersistsThen201 ==
    /\ Len(contactMessages) = serial.contact
    /\ \A r \in Conns :
        (reqs[r].h = "contact" /\ reqs[r].trace # <<>> /\ reqs[r].trace[1].out = "ok")
        => LET t  == reqs[r].trace
               id == t[1].arg[1]
           IN  /\ Calls(t, "createContactMessage") = {1}
               /\ Calls(t, "sendMail") \subseteq {2}
               /\ Cardinality({i \in 1..Len(contactMessages) :
                                  contactMessages[i].id = id}) = 1
               /\ reqs[r].pc \in {"ct_mail", "done"}
               /\ reqs[r].pc = "ct_mail" => hasSmtp /\ Len(t) = 1
               /\ reqs[r].pc = "done"
                  => /\ reqs[r].status = 201 /\ reqs[r].resp = <<id>>
                     /\ Len(t) = IF hasSmtp THEN 2 ELSE 1

\* C20 witness: the mail was attempted and failed, the message is in the table
\* and the answer is 201.
C20_Witness ==
    \E r \in Conns :
        /\ reqs[r].h = "contact" /\ reqs[r].pc = "done" /\ reqs[r].status = 201
        /\ Len(reqs[r].trace) = 2
        /\ reqs[r].trace[2].ev = "sendMail" /\ reqs[r].trace[2].out = "throw"
        /\ \E i \in 1..Len(contactMessages) :
             contactMessages[i].id = reqs[r].trace[1].arg[1]

-----------------------------------------------------------------------------
(* SpecCatalog: artworks are created through the API with any body and        *)
(* through the admin page's form, and the public lists are read.              *)

\* String.prototype.trim on the category values of the model
trim(s) == CASE s = " " -> "" [] s = " Peinture " -> "Peinture" [] OTHER -> s

\* handleAddArtwork: (form.category || "Autres").trim()
categoryNormalized(category) == trim(IF category = "" THEN "Autres" ELSE category)

\* the category field of the form: untouched, blank, padded, plain
FormCategories == {"", " ", " Peinture ", "Peinture"}

\* handleAddArtwork's POST body: the form's six text fields and the uploaded URL
AddArtworkBody(form, imageUrl) ==
    Body(FALSE, <<>>, ArtworkRequired,
         [ArtworkData EXCEPT !.imageUrl = imageUrl,
                             !.category = categoryNormalized(form.category)])

\* the fields the API lists as required: title, technique, year, imageUrl
ListedRequired == {"title", "image_url", "technique", "year"}

CatalogLines ==
    {<<"GET", <<"api", "artworks">>, NoBody>>,
     <<"GET", <<"api", "exhibitions">>, NoBody>>,
     <<"POST", <<"api", "artworks">>, Body(FALSE, <<>>, ArtworkRequired, ArtworkData)>>,
     <<"POST", <<"api", "artworks">>, Body(FALSE, <<>>, ListedRequired, ArtworkData)>>,
     <<"POST", <<"api", "artworks">>,
       Body(FALSE, <<>>, ArtworkRequired, [ArtworkData EXCEPT !.category = " "])>>,
     <<"POST", <<"api", "artworks">>,
       Body(FALSE, <<>>, ArtworkRequired, [ArtworkData EXCEPT !.category = "Peinture"])>>,
     <<"POST", <<"api", "artworks">>,
       Body(FALSE, <<>>, ArtworkRequired,
            [ArtworkData EXCEPT !.isVisible = "false", !.order = <<1>>])>>,
     <<"POST", <<"api", "artworks">>,
       Body(FALSE, <<>>, ArtworkRequired,
            [ArtworkData EXCEPT !.isVisible = "true", !.showInSlider = "false",
                                !.order = <<0>>])>>}

\* the lists are asked for with and without a session
CatalogRequests ==
    {Request(l[1], l[2], NoSession, l[3]) : l \in CatalogLines}
    \cup {Request(l[1], l[2], AdminSession, l[3]) :
            l \in {c \in CatalogLines : c[1] = "GET"}}

\* a populated site some of whose artworks are hidden
InitCatalog ==
    /\ artworks \in {[i \in RecordIds |->
                         [InitArtworkRow(i) EXCEPT
                            !.isVisible = IF i = 1 THEN v ELSE "true"]] :
                        v \in {"true", "false"}}
    /\ exhibitions = [i \in RecordIds |-> InitExhibitionRow(i)]
    /\ siteSettings = [slots |-> <<>>]
    /\ bucket = {<<"a">>, <<"b">>, <<"c">>}
    /\ serial = [artworks |-> NumRecords, exhibitions |-> NumRecords, contact |-> 0]
    /\ contactMessages = <<>>
    /\ reqs = [r \in Conns |-> Idle]
    /\ client = InitClient
    /\ ghost = InitGhost
    /\ Booted

ServeCatalog(r) ==
    /\ ghost.served < MaxRequests
    /\ client.pc # "adding"
    /\ \E q \in CatalogRequests : Admissible(q) /\ Receive(r, q)
    /\ ghost' = [ghost EXCEPT !.served = @ + 1]
    /\ client' = [client EXCEPT !.pc = "off"]

\* handleAddArtwork up to its first await: the image goes to /api/upload
HandleAddArtwork ==
    /\ ghost.served < MaxRequests
    /\ client.pc # "adding"
    /\ serial.artworks <= NumRecords
    /\ \E c \in FormCategories :
         client' = [client EXCEPT !.pc = "adding", !.data = << [category |-> c] >>]
    /\ Receive("A", Request("POST", <<"api", "upload">>, AdminSession,
                            ArrayBody(<<Image>>)))
    /\ ghost' = [ghost EXCEPT !.served = @ + 1]

\* handleAddArtwork after the upload: an error shown, or the POST of the form
HandleAddArtworkPost ==
    /\ client.pc = "adding"
    /\ reqs["A"].pc = "done" /\ reqs["A"].h = "upload"
    /\ IF reqs["A"].status = 200
       THEN /\ Receive("A", Request("POST", <<"api", "artworks">>, AdminSession,
                                    AddArtworkBody(client.data[1], reqs["A"].resp[1])))
            /\ client' = [client EXCEPT !.pc = "posted"]
       ELSE /\ client' = [client EXCEPT !.pc = "off"]
            /\ UNCHANGED <<store, reqs, env, boot>>
    /\ UNCHANGED ghost

NextCatalog ==
    \/ ServeCatalog("A")
    \/ HandleAddArtwork
    \/ HandleAddArtworkPost
    \/ Upload("A")
    \/ CreateArtwork("A")
    \/ GetArtworks("A")
    \/ GetExhibitions("A")

SpecCatalog == InitCatalog /\ [][NextCatalog]_vars

-----------------------------------------------------------------------------
(* Create and list *)

\* a create-artwork request that has been answered 201
Created(rec) == rec.h = "createArtwork" /\ rec.pc = "done" /\ rec.status = 201

\* the created record is persisted and returned with the defaults
CreatedWithDefaults ==
    \A r \in Conns :
        Created(reqs[r])
        => LET row == reqs[r].resp[1]
           IN  /\ row.order = 0 /\ row.isVisible = "true" /\ row.showInSlider = "true"
               /\ row.additionalImages = <<>>
               /\ row.id \in DOMAIN artworks /\ mapRow(artworks, row.id) = row

\* a create with the listed required fields, whose insert the store did not
\* reject, is answered 201
ListedRequiredSuffice ==
    \A r \in Conns :
        (reqs[r].h = "createArtwork" /\ reqs[r].pc = "done"
           /\ ListedRequired \subseteq reqs[r].body.fields
           /\ \A i \in 1..Len(reqs[r].trace) : reqs[r].trace[i].out = "ok")
        => reqs[r].status = 201

\* C21: every successful create-artwork call persists the new record with
\* order 0, isVisible true, showInSlider true and no supplementary image, and
\* a create with only title, technique, year and imageUrl is answered 201.
C21_CreateDefaults == CreatedWithDefaults /\ ListedRequiredSuffice

\* C22: a created artwork whose category was omitted, empty or blank is
\* stored and returned with category "Autres"; any other category is stored
\* and returned as given.
C22_CategoryNormalised ==
    \A r \in Conns :
        Created(reqs[r])
        => LET given == reqs[r].body.data.category
               row   == reqs[r].resp[1]
           IN  /\ row.category = IF trim(given) = "" THEN "Autres" ELSE given
               /\ artworks[row.id].category = row.category

\* the response lists exactly the rows of t in S, each once, ascending by order
ListsExactly(resp, t, S) ==
    /\ Len(resp) = Cardinality(S)
    /\ \A id \in S : \E i \in 1..Len(resp) : resp[i] = mapRow(t, id)
    /\ \A i \in 1..(Len(resp) - 1) : resp[i].order <= resp[i + 1].order

\* the lists are served to any caller, filtered and sorted
ListsServed ==
    \A r \in Conns :
        /\ reqs[r].h \in {"getArtworks", "getExhibitions"} => reqs[r].status # 401
        /\ (reqs[r].h = "getArtworks" /\ reqs[r].pc = "done" /\ reqs[r].status = 200)
           => ListsExactly(reqs[r].resp, artworks,
                           {id \in DOMAIN artworks : artworks[id].isVisible = "true"})
        /\ (reqs[r].h = "getExhibitions" /\ reqs[r].pc = "done" /\ reqs[r].status = 200)
           => ListsExactly(reqs[r].resp, exhibitions, DOMAIN exhibitions)

\* no step of a list request changes the persisted state
ListsChangeNothing ==
    \A r \in Conns :
        (reqs'[r] # reqs[r] /\ reqs'[r].h \in {"getArtworks", "getExhibitions"})
        => UNCHANGED store

\* C23: GET /api/artworks is ungated and returns exactly the visible artworks
\* ascending by order; GET /api/exhibitions is ungated and returns all
\* exhibitions ascending by order; neither changes any persisted state.
C23_PublicLists == []ListsServed /\ [][ListsChangeNothing]_vars

\* a list of two or more artworks served without a session while an artwork
\* is hidden
C23_Witness ==
    \E r \in Conns :
        /\ reqs[r].h = "getArtworks" /\ reqs[r].pc = "done" /\ reqs[r].status = 200
        /\ reqs[r].session = NoSession
        /\ Len(reqs[r].resp) >= 2
        /\ \E id \in DOMAIN artworks : artworks[id].isVisible = "false"

-----------------------------------------------------------------------------
(* Slots *)

\* the body of a slots request is not an array of exactly three entries
BadSlots(rec) ==
    rec.h = "putSlots" /\ rec.status # 401
    /\ (~rec.body.isArray \/ Len(rec.body.items) # SlotsLen)

\* a malformed slots request is answered 400; the slots read, and served, are three
SlotsAreThree ==
    /\ Len(getSlots(siteSettings)) = SlotsLen
    /\ \A r \in Conns :
         /\ BadSlots(reqs[r]) => reqs[r].pc = "done" /\ reqs[r].status = 400
         /\ (reqs[r].h = "getSlots" /\ reqs[r].pc = "done" /\ reqs[r].status = 200)
            => Len(reqs[r].resp) = SlotsLen

\* no step of a malformed slots request changes the setting
BadSlotsChangeNothing ==
    \A r \in Conns :
        (reqs'[r] # reqs[r] /\ BadSlots(reqs'[r])) => UNCHANGED siteSettings

\* C24: a slots update whose body is not an array of exactly 3 entries is
\* answered 400 and leaves the setting unchanged, so the slots read always
\* have exactly 3 entries, [null, null, null] when none was stored.
C24_SlotsAlwaysThree == []SlotsAreThree /\ [][BadSlotsChangeNothing]_vars

\* a malformed update refused after slots were stored
C24_Witness ==
    \E r \in Conns :
        /\ BadSlots(reqs[r]) /\ reqs[r].pc = "done" /\ reqs[r].status = 400
        /\ siteSettings.slots = << <<1, 0, 0>> >>

-----------------------------------------------------------------------------
(* SpecGallery: the administrator rewrites the gallery of exhibition 1 with   *)
(* lists that keep, drop and add images.                                      *)

UrlManagedD == getPublicUrl("d")

\* the URLs a submitted gallery entry may carry
GalleryUrls == {UrlManagedC, UrlManagedD, UrlExternal, UrlLocal, UrlEmpty}

\* the submitted lists: up to two entries
GalleryBodies ==
    {<<>>} \cup {<< [url |-> u] >> : u \in GalleryUrls}
    \cup {<< [url |-> u], [url |-> v] >> : u \in GalleryUrls, v \in GalleryUrls}

GalleryRequests ==
    {Request("PUT", <<"api", "exhibitions", "1", "gallery">>, AdminSession, ArrayBody(b)) :
        b \in GalleryBodies}

ServeGallery(r) ==
    /\ ghost.served < MaxRequests
    /\ \E q \in GalleryRequests : Receive(r, q)
    /\ ghost' = [ghost EXCEPT !.served = @ + 1]
    /\ UNCHANGED client

NextGallery ==
    \/ ServeGallery("A")
    \/ GalleryGet("A") \/ GalleryBlob("A") \/ GalleryUpdate("A")

SpecGallery == Init /\ [][NextGallery]_vars

\* the elements of a sequence
Range(s) == {s[i] : i \in 1..Len(s)}

\* a gallery update that found its exhibition and has been answered
GalleryDone(rec) == rec.h = "gallery" /\ rec.pc = "done" /\ rec.existing # <<>>

\* the blob paths whose removal the request issued
Attempted(rec) == {rec.trace[i].arg : i \in {j \in 1..Len(rec.trace) : rec.trace[j].ev = "remove"}}

\* the blob a URL refers to: a set of at most one path
BlobOf(url) == IF IsManaged(url) THEN {pathToRemove(url)[1]} ELSE {}

\* C25: a gallery update on an existing exhibition attempts the deletion of
\* exactly the blobs whose URL is in the previous list and not in the
\* submitted one, never that of a retained URL; a failed deletion does not
\* stop the update; after the update the persisted gallery is the submitted
\* list.
C25_GalleryUpdate ==
    \A r \in Conns :
        GalleryDone(reqs[r])
        => LET rec      == reqs[r]
               previous == Range(UrlsOf(rec.existing[1].galleryImages))
               next     == Range(UrlsOf(rec.body.items))
           IN  /\ Attempted(rec) = UNION {BlobOf(u) : u \in previous \ next}
               /\ \A u \in next : BlobOf(u) \cap Attempted(rec) = {}
               /\ rec.trace # <<>>
               /\ rec.trace[Len(rec.trace)].ev = "updateExhibitionGallery"
               /\ rec.status = 200
                  => /\ exhibitions[rec.id].galleryImages = rec.body.items
                     /\ rec.resp = getRow(exhibitions, rec.id)

\* an update that kept one image and dropped another, whose deletion failed
C25_Witness ==
    \E r \in Conns :
        /\ GalleryDone(reqs[r]) /\ reqs[r].status = 200
        /\ Len(reqs[r].existing[1].galleryImages) = 2
        /\ Len(reqs[r].body.items) = 1
        /\ reqs[r].body.items[1] \in Range(reqs[r].existing[1].galleryImages)
        /\ IsManaged(reqs[r].body.items[1].url)
        /\ Len(reqs[r].trace) = 2
        /\ reqs[r].trace[1].ev = "remove" /\ reqs[r].trace[1].out # "ok"

-----------------------------------------------------------------------------
(* SpecSeed: two server instances boot on an empty users table, their         *)
(* ensureAdminUser runs interleaving, and boot again.                         *)

InitSeed ==
    /\ InitStore
    /\ users = <<>>
    /\ env \in [ADMIN_USERNAME : {"", "bob"}, ADMIN_PASSWORD : {"", "pw"},
               SMTP_HOST : {""}]
    /\ boot = [i \in Instances |-> [pc |-> "select", err |-> FALSE]]

\* the instance is started again
Reboot(i) ==
    /\ boot[i].pc = "done"
    /\ ghost.served < MaxRequests
    /\ boot' = [boot EXCEPT ![i] = [pc |-> "select", err |-> FALSE]]
    /\ ghost' = [ghost EXCEPT !.served = @ + 1]
    /\ UNCHANGED <<store, env, reqs, client>>

NextSeed ==
    \E i \in Instances :
        \/ EnsureAdminUserSelect(i)
        \/ EnsureAdminUserInsert(i)
        \/ Reboot(i)

SpecSeed == InitSeed /\ [][NextSeed]_vars

\* every instance has booted and none of its store calls failed
AllBooted == \A i \in Instances : boot[i].pc = "done" /\ ~boot[i].err

\* at most one user, the seeded one; exactly one once the boots are through
SeededOnce ==
    /\ Len(users) <= 1
    /\ \A k \in 1..Len(users) : users[k] = seedUsername
    /\ env.ADMIN_PASSWORD = "" => users = <<>>
    /\ (AllBooted /\ env.ADMIN_PASSWORD # "") => users = << seedUsername >>

\* a user is created only on an empty table with a password configured
SeedsOnlyWhenEmpty ==
    users' # users
    => /\ users = <<>> /\ env.ADMIN_PASSWORD # ""
       /\ users' = << seedUsername >>

\* C26: the seeding creates a user only when the users table is empty and a
\* password is supplied; after any number of boots, interleaved ones
\* included, the table holds exactly one seeded admin user; a boot that finds
\* the table non-empty or no password creates nothing.
C26_SeededExactlyOnce == []SeededOnce /\ [][SeedsOnlyWhenEmpty]_vars

\* both instances found the table empty; one has seeded the user and the
\* other is about to issue its insert
C26_Witness ==
    \E i, j \in Instances :
        /\ boot[i].pc = "done" /\ ~boot[i].err
        /\ boot[j].pc = "insert"
        /\ users = << seedUsername >>

-----------------------------------------------------------------------------
(* SpecReorderDelete: a reorder of the exhibitions runs on one connection     *)
(* while exhibitions are deleted on the other.                                *)

\* the mappings submitted: one or two pairs, ids and orders may repeat
ShortBodies == [1..1 -> Pairs] \cup [1..2 -> Pairs]

ServeReorder(r) ==
    /\ reqs[r].pc = "idle"
    /\ \E items \in ShortBodies : Arrive(r, PutExhibitionsOrder(items))

\* ghost.ok: the delete arrived while a reorder was in its loop
ServeDelete(r) ==
    /\ reqs[r].pc = "idle"
    /\ \E i \in RecordIds :
         Receive(r, Request("DELETE", <<"api", "exhibitions", IdStrings[i]>>,
                            AdminSession, NoBody))
    /\ ghost' = [ghost EXCEPT !.ok = \E a \in Conns : reqs[a].pc = "reorderExhibitions"]
    /\ UNCHANGED client

NextReorderDelete ==
    \/ ServeReorder("A")
    \/ ReorderExhibitions("A")
    \/ ServeDelete("B")
    \/ DeleteExhibitionGet("B") \/ DeleteExhibitionPrimary("B")
    \/ DeleteExhibitionGallery("B") \/ DeleteExhibitionRecord("B")

SpecReorderDelete == Init /\ [][NextReorderDelete]_vars

\* table u has the records of table t, and differs from it at most in the
\* order field of the records whose id is in S
OnlyOrderOf(t, u, S) ==
    /\ DOMAIN u = DOMAIN t
    /\ \A id \in DOMAIN t :
         /\ [u[id] EXCEPT !.order = t[id].order] = t[id]
         /\ id \notin S => u[id] = t[id]

\* a step of a reorder request touches nothing but the order of the
\* exhibitions it names
ReorderExhibitionsFrame ==
    \A r \in Conns :
        (reqs'[r] # reqs[r] /\ reqs'[r].h = "reorderExhibitions")
        => /\ OnlyOrderOf(exhibitions, exhibitions', Ids(reqs'[r].body.items))
           /\ UNCHANGED <<artworks, siteSettings, users, bucket, serial, contactMessages>>

\* any call of storage.reorderArtworks, stopped after any number of updates,
\* touches nothing but the order of the artworks it names
ReorderArtworksFrame ==
    \A items \in ShortBodies : \A n \in 0..Len(items) :
        OnlyOrderOf(artworks, reorderArtworks(artworks, items, n), Ids(items))

\* an exhibition whose delete was answered 200 is in the table no more
DeletedStaysDeleted ==
    \A r \in Conns :
        (reqs[r].h = "deleteExhibition" /\ reqs[r].pc = "done" /\ reqs[r].status = 200)
        => reqs[r].id \notin DOMAIN exhibitions

\* C27: a reorder changes only the order field of existing records named in
\* the mapping: it creates no record, deletes none, and leaves every other
\* field and every other record's order as they were, also when a delete of
\* one of the ids interleaves, whose record is not created again.
C27_ReorderFrame ==
    /\ [](DeletedStaysDeleted /\ ReorderArtworksFrame)
    /\ [][ReorderExhibitionsFrame]_vars

\* a reorder in its loop, its next update naming an exhibition that a delete
\* arrived during the loop has removed
C27_Witness ==
    /\ ghost.ok
    /\ reqs["A"].pc = "reorderExhibitions" /\ reqs["A"].pos = 2
    /\ reqs["A"].body.items[2].id = reqs["B"].id
    /\ reqs["B"].h = "deleteExhibition" /\ reqs["B"].pc = "done" /\ reqs["B"].status = 200
    /\ reqs["B"].id \notin DOMAIN exhibitions

-----------------------------------------------------------------------------
(* SpecImagesRace: two administrators act on artwork 1 at the same time, each *)
(* attaching an image or deleting the artwork.                                *)

ImagesRaceRequests ==
    {Request("POST", <<"api", "artworks", "1", "additional-images">>, AdminSession,
             OneImage),
     Request("DELETE", <<"api", "artworks", "1">>, AdminSession, NoBody)}

ServeImagesRace(r) ==
    /\ reqs[r].pc = "idle"
    /\ \E q \in ImagesRaceRequests : Arrive(r, q)

NextImagesRace ==
    \E r \in Conns :
        \/ ServeImagesRace(r)
        \/ AdditionalImagesGet(r) \/ AdditionalImagesUpload(r)
        \/ AdditionalImagesUpdate(r)
        \/ DeleteArtworkGet(r) \/ DeleteArtworkBlob(r) \/ DeleteArtworkRecord(r)

SpecImagesRace == Init /\ [][NextImagesRace]_vars

\* an additional-images request that has been answered 200
Attached(rec) == rec.h = "additionalImages" /\ rec.pc = "done" /\ rec.status = 200

\* C28: when two concurrent additional-images requests for the same artwork
\* are both answered 200, the artwork's final supplementary list holds the
\* URLs uploaded by both.
C28_NoLostAppend ==
    \A r, s \in Conns :
        (r # s /\ Attached(reqs[r]) /\ Attached(reqs[s]) /\ reqs[r].id = reqs[s].id)
        => /\ reqs[r].id \in DOMAIN artworks
           /\ Range(reqs[r].acc) \cup Range(reqs[s].acc)
                \subseteq Range(artworks[reqs[r].id].additionalImages)

\* the step that answers an additional-images request 200 writes to a record
\* that exists, and leaves it with the list of the response
WritesWhatItAnswers ==
    \A r \in Conns :
        (reqs[r].pc = "ai_update" /\ Attached(reqs'[r]))
        => /\ reqs[r].id \in DOMAIN artworks
           /\ reqs[r].id \in DOMAIN artworks'
           /\ artworks'[reqs[r].id].additionalImages = reqs'[r].resp

\* C29: whenever an additional-images request is answered 200, the record
\* existed at the moment of the write and its persisted list equals the list
\* of the response, also when a DELETE of the artwork interleaves between the
\* existence check and the update.
C29_AnswerMatchesRecord == [][WritesWhatItAnswers]_vars

-----------------------------------------------------------------------------
(* SpecGalleryRace: two administrators rewrite the gallery of exhibition 1 at *)
(* the same time.                                                             *)

\* the submitted lists: the stored image and an added one, kept or dropped
RaceGalleryBodies ==
    {<<>>, << [url |-> UrlManagedC] >>, << [url |-> UrlManagedD] >>,
     << [url |-> UrlManagedC], [url |-> UrlManagedD] >>}

ServeGalleryRace(r) ==
    /\ reqs[r].pc = "idle"
    /\ \E b \in RaceGalleryBodies :
         Arrive(r, Request("PUT", <<"api", "exhibitions", "1", "gallery">>,
                           AdminSession, ArrayBody(b)))

NextGalleryRace ==
    \E r \in Conns :
        \/ ServeGalleryRace(r)
        \/ GalleryGet(r) \/ GalleryBlob(r) \/ GalleryUpdate(r)

SpecGalleryRace == Init /\ [][NextGalleryRace]_vars

\* the blobs the gallery updates have deleted
DeletedByGalleryUpdates ==
    UNION {{reqs[r].trace[i].arg :
              i \in {j \in 1..Len(reqs[r].trace) :
                        reqs[r].trace[j].ev = "remove" /\ reqs[r].trace[j].out = "ok"}} :
           r \in {c \in Conns : reqs[c].h = "gallery"}}

\* no request is in flight
Quiescent == \A r \in Conns : reqs[r].pc \in {"idle", "done"}

\* C30: after any interleaving of gallery updates on one exhibition, one whose
\* final update fails included, no URL of the persisted gallery refers to a
\* blob that a gallery update deleted.
C30_NoDanglingGalleryUrl ==
    Quiescent
    => \A id \in DOMAIN exhibitions :
         \A i \in 1..Len(exhibitions[id].galleryImages) :
            BlobOf(exhibitions[id].galleryImages[i].url) \cap DeletedByGalleryUpdates = {}

====
